---- MODULE Spec2Model ----
(***************************************************************************)
(* A model of package ostdlib (caltechlibrary/ostdlib): the help registry  *)
(* of JavaScriptVM (SetHelp, GetHelp, AddAutoComplete) and the interactive *)
(* shell JavaScriptVM.Repl.                                                *)
(*                                                                         *)
(* Go strings are TLA+ strings; the string functions of the Go standard    *)
(* library that the code calls are written out below over Len, SubSeq and  *)
(* \o.  Two specifications share the variables:                            *)
(*   SpecHelp  the registry operations on a freshly made JavaScriptVM      *)
(*   SpecRepl  the shell loop, started on a VM whose registry was filled   *)
(***************************************************************************)
EXTENDS Integers, Sequences, FiniteSets, TLC

VARIABLES
    Help,               \* JavaScriptVM.Help: object name -> sequence of HelpMsg
    AutoCompleteTerms,  \* JavaScriptVM.AutoCompleteTerms
    AutoCompleter,      \* children of JavaScriptVM.AutoCompleter, as their texts
    out,                \* what the last operation wrote to standard output, one element per print call
    regs,               \* history variable: the argument lists of the SetHelp calls that registered a message
    call,               \* history variable: the last call made, with its arguments
    pc,                 \* "setup" before the shell, "read" in the loop of Repl, "returned", "exited"
    cmds,               \* Repl: the pending buffer
    prompt,             \* Repl: the prompt of the line editor
    i,                  \* Repl: the loop counter
    history,            \* the arguments of the rl.SaveHistory calls so far, in order
    histFile,           \* contents of rl.Config.HistoryFile
    files,              \* the other files: name -> contents, or NoFile
    rlClosed,           \* TRUE once rl.Close() has run
    evals,              \* the texts whose compiled unit js.VM.Eval was run on, in order
    inputs,             \* history variable: the lines rl.Readline returned so far
    paths,              \* history variable: for each line, the switch case that handled it
    fs,                 \* the file system the os functions see: path -> "none", "file", "dir", "fulldir"
    books,              \* the xlsx files: name -> the workbook in the file, or none
    net,                \* the servers the http functions reach: uri -> how the server answers
    ret,                \* the value the last host function returned to the script
    log,                \* what the last host function wrote to the process log, one element per line
    trail,              \* history variable: the host functions called so far, with their arguments
    aStruct,            \* the struct the caller of ToStruct passed in
    failure,            \* the error ToStruct returned: its message, "" for nil
    wbData,             \* the __data property of the Workbook object of the script
    argv,               \* ottomatic: the flags and the file arguments of the command line
    runRepl             \* ottomatic: the package variable runRepl

helpVars == <<Help, AutoCompleteTerms, AutoCompleter, regs>>
replVars == <<pc, cmds, prompt, i, history, histFile, files, rlClosed, evals, inputs, paths>>
hostVars == <<fs, books, net, ret, log, trail, aStruct, failure, wbData, argv, runRepl>>
vars == <<Help, AutoCompleteTerms, AutoCompleter, out, regs, call,
          pc, cmds, prompt, i, history, histFile, files, rlClosed, evals, inputs, paths,
          fs, books, net, ret, log, trail, aStruct, failure, wbData, argv, runRepl>>

(***************************************************************************)
(* Bounds.                                                                 *)
(***************************************************************************)
MaxReg == 3      \* messages registered in a behaviour of SpecHelp
MaxLines == 3    \* lines read in a behaviour of SpecRepl
MaxCalls == 3    \* host functions called in a behaviour of SpecHost

(***************************************************************************)
(* The string functions of package strings that the code uses.             *)
(***************************************************************************)
Char(s, k) == SubSeq(s, k, k)

\* strings.HasPrefix
HasPrefix(s, p) == Len(s) >= Len(p) /\ SubSeq(s, 1, Len(p)) = p

\* strings.TrimPrefix
TrimPrefix(s, p) == IF HasPrefix(s, p) THEN SubSeq(s, Len(p) + 1, Len(s)) ELSE s

RECURSIVE IndexFrom(_, _, _)
IndexFrom(s, c, k) ==
    IF k > Len(s) THEN -1
    ELSE IF Char(s, k) = c THEN k - 1
    ELSE IndexFrom(s, c, k + 1)

\* strings.Index for a one-character separator: 0-based position, -1 when absent
Index(s, c) == IndexFrom(s, c, 1)

RECURSIVE Join(_, _)
\* strings.Join
Join(a, sep) ==
    IF Len(a) = 0 THEN ""
    ELSE IF Len(a) = 1 THEN a[1]
    ELSE a[1] \o sep \o Join(Tail(a), sep)

RECURSIVE Split(_, _)
\* bytes.Split / strings.Split for a one-character separator
Split(s, c) ==
    LET p == Index(s, c)
    IN  IF p = -1 THEN <<s>>
        ELSE <<SubSeq(s, 1, p)>> \o Split(SubSeq(s, p + 2, Len(s)), c)

\* strings.SplitN(s, c, 2)
SplitN2(s, c) ==
    LET p == Index(s, c)
    IN  IF p = -1 THEN <<s>>
        ELSE <<SubSeq(s, 1, p), SubSeq(s, p + 2, Len(s))>>

Digits == <<"0", "1", "2", "3", "4", "5", "6", "7", "8", "9">>

RECURSIVE Itoa(_)
\* %d of a non-negative integer
Itoa(n) == IF n < 10 THEN Digits[n + 1] ELSE Itoa(n \div 10) \o Digits[(n % 10) + 1]

\* fmt.Sprintf("%0.2d", n): precision 2, at least two digits
Fmt02d(n) == IF n < 10 THEN "0" \o Itoa(n) ELSE Itoa(n)

\* color.New(color.Bold).SprintFunc(): the text between the SGR codes for bold and reset
\* (ESC stands for the escape character)
bold(s) == "ESC[1m" \o s \o "ESC[0m"

(***************************************************************************)
(* Values of the script engine.  Every value is a record of one shape:     *)
(* t its type, s the text of a scalar, a the elements of an array or the   *)
(* properties of an object, in insertion order.                            *)
(***************************************************************************)
JsUndefined == [t |-> "undefined", s |-> "", a |-> <<>>]
JsBool(b) == [t |-> "boolean", s |-> IF b THEN "true" ELSE "false", a |-> <<>>]
JsString(x) == [t |-> "string", s |-> x, a |-> <<>>]
JsNumber(x) == [t |-> "number", s |-> x, a |-> <<>>]
JsArray(elems) == [t |-> "array", s |-> "", a |-> elems]
JsObject(props) == [t |-> "object", s |-> "", a |-> props]
Prop(key, val) == [k |-> key, v |-> val]

\* the struct of the caller before ToStruct has filled it: every field has its zero value
\* (a number is held as its count of tenths)
ZeroStruct == [one |-> 0, two |-> "", three |-> 0, four |-> <<>>, five |-> FALSE]
StructIdle == aStruct = ZeroStruct /\ failure = ""

\* var Workbook = xlsx.New(): __data is the empty object
WorkbookNew == wbData = JsObject(<<>>)

\* a command line without flags and without files
NoArgv == [showHelp |-> FALSE, showVersion |-> FALSE, runRepl |-> FALSE, args |-> <<>>]
MainIdle == argv = NoArgv /\ runRepl = FALSE

\* no host function has been called
HostIdle ==
    /\ fs = [p \in {} |-> "none"] /\ books = [n \in {} |-> <<>>] /\ net = [u \in {} |-> "ok"]
    /\ ret = JsUndefined /\ log = <<>> /\ trail = <<>>
    /\ StructIdle
    /\ WorkbookNew
    /\ MainIdle

(***************************************************************************)
(* The help registry.                                                      *)
(***************************************************************************)
HelpMsg(o, f, p, text) == [Object |-> o, Function |-> f, Params |-> p, Msg |-> text]

\* the map made by New: no keys
NewHelp == [k \in {} |-> <<>>]

\* the autocompletion term SetHelp derives from a message
SetHelpName(msg) ==
    IF Len(msg.Params) = 0
    THEN msg.Object \o "." \o msg.Function \o "()"
    ELSE msg.Object \o "." \o msg.Function \o "(" \o Join(msg.Params, ", ") \o ")"

\* SetHelp without its test of the object name
SetHelpOp_NoGuard(H, T, objectName, functionName, params, text) ==
    LET msg == HelpMsg(objectName, functionName, params, text)
        data == IF objectName \in DOMAIN H
                THEN Append(H[objectName], msg)
                ELSE <<msg>>
    IN  [Help |-> (objectName :> data) @@ H, Terms |-> Append(T, SetHelpName(msg))]

\* SetHelp keeping one message per object and function
SetHelpOp_Unique(H, T, objectName, functionName, params, text) ==
    IF objectName = "" THEN [Help |-> H, Terms |-> T]
    ELSE IF objectName \in DOMAIN H
            /\ \E k \in 1..Len(H[objectName]) : H[objectName][k].Function = functionName
    THEN [Help |-> H, Terms |-> T]
    ELSE LET msg == HelpMsg(objectName, functionName, params, text)
             data == IF objectName \in DOMAIN H
                     THEN Append(H[objectName], msg)
                     ELSE <<msg>>
         IN  [Help |-> (objectName :> data) @@ H, Terms |-> Append(T, SetHelpName(msg))]

\* SetHelp as a function of the registry: the new Help and AutoCompleteTerms
SetHelpOp(H, T, objectName, functionName, params, text) ==
    IF objectName = "" THEN [Help |-> H, Terms |-> T]
    ELSE LET msg == HelpMsg(objectName, functionName, params, text)
             name == SetHelpName(msg)
             data == IF objectName \in DOMAIN H
                     THEN Append(H[objectName], msg)
                     ELSE <<msg>>
         IN  [Help |-> (objectName :> data) @@ H, Terms |-> Append(T, name)]

\* the signature GetHelp prints for a message under an object listing
GetHelpSig(msg) ==
    msg.Object \o "." \o msg.Function \o "(" \o Join(msg.Params, ", ") \o ")"

\* the text GetHelp prints for a message matched by function name
GetHelpDoc(msg) == GetHelpSig(msg) \o "\n    " \o msg.Msg

RECURSIVE GetHelpTopics_Reversed(_, _)
\* the loop of GetHelp putting each text before those already collected
GetHelpTopics_Reversed(topics, functionName) ==
    IF Len(topics) = 0 THEN <<>>
    ELSE LET msg == Head(topics)
             rest == GetHelpTopics_Reversed(Tail(topics), functionName)
         IN  IF functionName = "" THEN rest \o <<GetHelpSig(msg)>>
             ELSE IF functionName = msg.Function THEN rest \o <<GetHelpDoc(msg)>>
             ELSE rest

RECURSIVE GetHelpTopics_NoFilter(_, _)
\* the loop of GetHelp printing the signature of a message whose function name differs
GetHelpTopics_NoFilter(topics, functionName) ==
    IF Len(topics) = 0 THEN <<>>
    ELSE LET msg == Head(topics)
             rest == GetHelpTopics_NoFilter(Tail(topics), functionName)
         IN  IF functionName = msg.Function THEN <<GetHelpDoc(msg)>> \o rest
             ELSE <<GetHelpSig(msg)>> \o rest

RECURSIVE GetHelpTopics(_, _)
\* the loop of GetHelp over the messages of one object
GetHelpTopics(topics, functionName) ==
    IF Len(topics) = 0 THEN <<>>
    ELSE LET msg == Head(topics)
             rest == GetHelpTopics(Tail(topics), functionName)
         IN  IF functionName = "" THEN <<GetHelpSig(msg)>> \o rest
             ELSE IF functionName = msg.Function THEN <<GetHelpDoc(msg)>> \o rest
             ELSE rest

\* the orders in which a range over the keys of a Go map may yield them: any
Orders(S) == {q \in [1..Cardinality(S) -> S] : \A a, b \in 1..Cardinality(S) : a # b => q[a] # q[b]}

\* the dot commands GetHelp lists, one print call each
DotCommandHelp == <<
    " " \o bold(".help") \o "\tshow help\n",
    " " \o bold(".break") \o "\tbreak out multi-line entry without saving command\n",
    " " \o bold(".exit") \o "\texit repl\n",
    " " \o bold(".list") \o "\tlist history\n",
    " " \o bold(".load") \o " FILENAME\tload history from FILENAME\n",
    " " \o bold(".reset") \o "\ttrunctate history\n",
    " " \o bold(".save") \o " FILENAME\tsave history to FILENAME\n" >>

\* a GetHelp that takes the directory branch only when both names are empty
GetHelpOut_ConsultsFunction(H, objectName, functionName) ==
    IF objectName = "" /\ functionName = ""
    THEN { <<Join(<<"help provides information about objects and functions">> \o q, "\n   ") \o "\n",
             "Additionally the repl provide the following dot commands\n">> \o DotCommandHelp
           : q \in Orders(DOMAIN H) }
    ELSE LET s == <<objectName>> \o
                  (IF objectName \in DOMAIN H
                   THEN GetHelpTopics(H[objectName], functionName)
                   ELSE <<>>)
         IN  { <<Join(s, "\n  ") \o "\n">> }

\* the outputs GetHelp may produce: a set, because the directory ranges over a map
GetHelpOut(H, objectName, functionName) ==
    IF objectName = ""
    THEN { <<Join(<<"help provides information about objects and functions">> \o q, "\n   ") \o "\n",
             "Additionally the repl provide the following dot commands\n">> \o DotCommandHelp
           : q \in Orders(DOMAIN H) }
    ELSE LET s == <<objectName>> \o
                  (IF objectName \in DOMAIN H
                   THEN GetHelpTopics(H[objectName], functionName)
                   ELSE <<>>)
         IN  { <<Join(s, "\n  ") \o "\n">> }

\* the fixed children AddAutoComplete puts first
DotCommands == <<".help", ".break", ".exit", ".list", ".load", ".reset", ".save">>

\* an AddAutoComplete that starts from the children of the completer it replaces
AddAutoCompleteChildren_Appends(T) == AutoCompleter \o DotCommands \o T

\* the children AddAutoComplete gives the new completer
AddAutoCompleteChildren(T) == DotCommands \o T

(***************************************************************************)
(* SpecHelp: the registry operations.                                      *)
(***************************************************************************)
ObjectNames == {"", "os", "http"}
FunctionNames == {"a", "b"}
QueryNames == {"", "a", "b"}
ParamLists == {<<>>, <<"p string", "q int">>}
Texts == {"doc"}

\* the shell has not been started
ReplIdle ==
    /\ cmds = <<>> /\ prompt = "" /\ i = 0 /\ history = <<>> /\ histFile = ""
    /\ files = [n \in {} |-> [exists |-> FALSE, data |-> ""]] /\ rlClosed = FALSE /\ evals = <<>>
    /\ inputs = <<>> /\ paths = <<>>

\* the state New returns
Init ==
    /\ Help = NewHelp
    /\ AutoCompleteTerms = <<>>
    /\ AutoCompleter = <<>>
    /\ out = <<>>
    /\ regs = <<>>
    /\ call = <<"New">>
    /\ pc = "setup"
    /\ ReplIdle
    /\ HostIdle

SetHelp(objectName, functionName, params, text) ==
    /\ pc = "setup"
    /\ objectName # "" => Len(regs) < MaxReg
    /\ LET r == SetHelpOp(Help, AutoCompleteTerms, objectName, functionName, params, text)
       IN  /\ Help' = r.Help
           /\ AutoCompleteTerms' = r.Terms
    /\ regs' = IF objectName = "" THEN regs
                ELSE Append(regs, <<objectName, functionName, params, text>>)
    /\ call' = <<"SetHelp", objectName, functionName, params, text>>
    /\ out' = <<>>
    /\ UNCHANGED <<AutoCompleter>>
    /\ UNCHANGED replVars
    /\ UNCHANGED hostVars

GetHelp(objectName, functionName) ==
    /\ pc = "setup"
    /\ out' \in GetHelpOut(Help, objectName, functionName)
    /\ call' = <<"GetHelp", objectName, functionName>>
    /\ UNCHANGED helpVars
    /\ UNCHANGED replVars
    /\ UNCHANGED hostVars

AddAutoComplete ==
    /\ pc = "setup"
    /\ AutoCompleter' = AddAutoCompleteChildren(AutoCompleteTerms)
    /\ call' = <<"AddAutoComplete">>
    /\ out' = <<>>
    /\ UNCHANGED <<Help, AutoCompleteTerms, regs>>
    /\ UNCHANGED replVars
    /\ UNCHANGED hostVars

NextHelp ==
    \/ \E o \in ObjectNames, f \in FunctionNames, p \in ParamLists, t \in Texts : SetHelp(o, f, p, t)
    \/ \E o \in ObjectNames, f \in QueryNames : GetHelp(o, f)
    \/ AddAutoComplete

SpecHelp == Init /\ [][NextHelp]_vars

(***************************************************************************)
(* The script engine, at its interface: js.VM.Compile and js.VM.Eval are   *)
(* functions of the text.  The texts of the model are made of the tokens   *)
(* "{", "}", "1", "y" and of dot words; a text compiles when its braces    *)
(* balance and no token starts with a dot, and its evaluation raises an    *)
(* error when it refers to y, which is not defined.                        *)
(***************************************************************************)
RECURSIVE BraceDepth(_, _, _)
\* the depth of open braces after the text, -1 when a brace closes none
BraceDepth(t, k, d) ==
    IF k > Len(t) THEN d
    ELSE IF Char(t, k) = "{" THEN BraceDepth(t, k + 1, d + 1)
    ELSE IF Char(t, k) = "}" THEN (IF d = 0 THEN -1 ELSE BraceDepth(t, k + 1, d - 1))
    ELSE BraceDepth(t, k + 1, d)

Contains(t, c) == Index(t, c) > -1

LeadingDot(t) ==
    \E k \in 1..Len(t) : /\ Char(t, k) = "."
                         /\ (k = 1 \/ Char(t, k - 1) \in {" ", "{", "}"})

\* js.VM.Compile returns no error
Compiles(t) == BraceDepth(t, 1, 0) = 0 /\ ~LeadingDot(t)

\* js.VM.Eval returns an error
EvalRaises(t) == Contains(t, "y")

\* val.String() of the value js.VM.Eval returns
EvalString(t) == IF ~EvalRaises(t) /\ Contains(t, "1") THEN "1" ELSE "undefined"

(***************************************************************************)
(* Repl.                                                                   *)
(***************************************************************************)
BasePrompt == "> "

\* a switch that looks for dot commands only while the buffer is empty
Dispatch_IdleOnly(line) ==
    IF cmds # <<>> THEN (IF line = ".break" THEN "break" ELSE "default")
    ELSE IF HasPrefix(line, ".help") THEN "help"
    ELSE IF HasPrefix(line, ".list") THEN "list"
    ELSE IF HasPrefix(line, ".load") THEN "load"
    ELSE IF HasPrefix(line, ".reset") THEN "reset"
    ELSE IF HasPrefix(line, ".save") THEN "save"
    ELSE IF HasPrefix(line, ".exit") THEN "exit"
    ELSE IF line = ".break" THEN "break"
    ELSE "default"

\* a switch that tests .break as it tests the other dot commands, by prefix
Dispatch_BreakPrefix(line) ==
    IF HasPrefix(line, ".help") THEN "help"
    ELSE IF HasPrefix(line, ".list") THEN "list"
    ELSE IF HasPrefix(line, ".load") THEN "load"
    ELSE IF HasPrefix(line, ".reset") THEN "reset"
    ELSE IF HasPrefix(line, ".save") THEN "save"
    ELSE IF HasPrefix(line, ".exit") THEN "exit"
    ELSE IF HasPrefix(line, ".break") THEN "break"
    ELSE "default"

\* the case of the switch that a line selects: the first whose condition holds
Dispatch(line) ==
    IF HasPrefix(line, ".help") THEN "help"
    ELSE IF HasPrefix(line, ".list") THEN "list"
    ELSE IF HasPrefix(line, ".load") THEN "load"
    ELSE IF HasPrefix(line, ".reset") THEN "reset"
    ELSE IF HasPrefix(line, ".save") THEN "save"
    ELSE IF HasPrefix(line, ".exit") THEN "exit"
    ELSE IF line = ".break" THEN "break"
    ELSE "default"

\* a .help that takes the whole topic as the object name
HelpArgs_NoSplit(line) ==
    LET topic == TrimPrefix(line, ".help ")
    IN  IF topic = "" THEN <<"", "">> ELSE <<topic, "">>

\* the arguments of the GetHelp call that a .help line makes
HelpArgs(line) ==
    LET topic == TrimPrefix(line, ".help ")
        dotPosition == Index(topic, ".")
    IN  IF topic = "" THEN <<"", "">>
        ELSE IF dotPosition > -1 /\ dotPosition <= Len(topic)
             THEN <<SubSeq(topic, 1, dotPosition), SubSeq(topic, dotPosition + 2, Len(topic))>>
             ELSE <<topic, "">>

\* the prompt set after a failed compile
ContinuationPrompt(c) == Fmt02d(Len(c)) \o ": "

\* rl.SaveHistory, at its interface: the entry joins the store and the history file gets its line
SaveHistoryFile(hf, entry) == hf \o entry \o "\n"

RECURSIVE SaveAll(_, _)
SaveAll(hf, entries) ==
    IF Len(entries) = 0 THEN hf ELSE SaveAll(SaveHistoryFile(hf, Head(entries)), Tail(entries))

FileExists(n) == n \in DOMAIN files /\ files[n].exists

\* what every iteration of the loop does besides its case: the line is consumed, i++
ReadLine(line, case) ==
    /\ pc = "read"
    /\ Len(inputs) < MaxLines
    /\ Dispatch(line) = case
    /\ inputs' = Append(inputs, line)
    /\ i' = i + 1
    /\ call' = <<"Repl", line>>
    /\ UNCHANGED helpVars
    /\ UNCHANGED hostVars

\* rl.Readline returns io.EOF or readline.ErrInterrupt: the loop ends, Repl returns
\* and the deferred rl.Close() runs
ReadError(err) ==
    /\ pc = "read"
    /\ pc' = "returned"
    /\ rlClosed' = TRUE
    /\ call' = <<"Repl", err>>
    /\ out' = <<>>
    /\ UNCHANGED helpVars
    /\ UNCHANGED hostVars
    /\ UNCHANGED <<cmds, prompt, i, history, histFile, files, evals, inputs, paths>>

HelpCmd(line) ==
    /\ ReadLine(line, "help")
    /\ out' \in GetHelpOut(Help, HelpArgs(line)[1], HelpArgs(line)[2])
    /\ paths' = Append(paths, "help")
    /\ UNCHANGED <<pc, cmds, prompt, history, histFile, files, rlClosed, evals>>

\* readOk: whether ioutil.ReadFile of the history file succeeds
ListCmd(line, readOk) ==
    /\ ReadLine(line, "list")
    /\ out' = IF readOk THEN <<histFile>> ELSE <<"History is readable, error\n">>
    /\ paths' = Append(paths, "list")
    /\ UNCHANGED <<pc, cmds, prompt, history, histFile, files, rlClosed, evals>>

\* a .load that puts the lines of the file in the buffer as well
LoadCmd_IntoBuffer(line) ==
    /\ ReadLine(line, "load")
    /\ paths' = Append(paths, "load")
    /\ LET s == SplitN2(line, " ")
       IN  IF Len(s) < 2 \/ s[2] = ""
           THEN /\ out' \in GetHelpOut(Help, "", "")
                /\ UNCHANGED <<history, histFile, cmds>>
           ELSE IF ~FileExists(s[2])
           THEN /\ out' = <<"History is readable, error\n">>
                /\ UNCHANGED <<history, histFile, cmds>>
           ELSE LET entries == Split(files[s[2]].data, "\n")
                IN  /\ history' = history \o entries
                    /\ histFile' = SaveAll(histFile, entries)
                    /\ cmds' = cmds \o entries
                    /\ out' = <<s[2] \o " loaded\n">>
    /\ UNCHANGED <<pc, prompt, files, rlClosed, evals>>

LoadCmd(line) ==
    /\ ReadLine(line, "load")
    /\ paths' = Append(paths, "load")
    /\ LET s == SplitN2(line, " ")
       IN  IF Len(s) < 2 \/ s[2] = ""
           THEN /\ out' \in GetHelpOut(Help, "", "")
                /\ UNCHANGED <<history, histFile>>
           ELSE IF ~FileExists(s[2])
           THEN /\ out' = <<"History is readable, error\n">>
                /\ UNCHANGED <<history, histFile>>
           ELSE LET entries == Split(files[s[2]].data, "\n")
                IN  /\ history' = history \o entries
                    /\ histFile' = SaveAll(histFile, entries)
                    /\ out' = <<s[2] \o " loaded\n">>
    /\ UNCHANGED <<pc, cmds, prompt, files, rlClosed, evals>>

\* a .reset that reports the truncation and leaves the history file
ResetCmd_KeepsFile(line, truncOk) ==
    /\ ReadLine(line, "reset")
    /\ paths' = Append(paths, "reset")
    /\ out' = IF truncOk THEN <<"history truncated\n">>
              ELSE <<"Could not truncate history, error\n">>
    /\ UNCHANGED <<pc, cmds, prompt, history, histFile, files, rlClosed, evals>>

\* truncOk: whether os.Truncate of the history file succeeds
ResetCmd(line, truncOk) ==
    /\ ReadLine(line, "reset")
    /\ paths' = Append(paths, "reset")
    /\ IF truncOk
       THEN /\ histFile' = ""
            /\ out' = <<"history truncated\n">>
       ELSE /\ out' = <<"Could not truncate history, error\n">>
            /\ UNCHANGED histFile
    /\ UNCHANGED <<pc, cmds, prompt, history, files, rlClosed, evals>>

\* readOk, writeOk: whether reading the history file and writing the named file succeed
SaveCmd(line, readOk, writeOk) ==
    /\ ReadLine(line, "save")
    /\ paths' = Append(paths, "save")
    /\ LET s == SplitN2(line, " ")
       IN  IF ~readOk
           THEN /\ out' = <<"History is readable, error\n">>
                /\ UNCHANGED files
           ELSE IF Len(s) # 2 \/ s[2] = ""
           THEN /\ out' \in GetHelpOut(Help, "", "")
                /\ UNCHANGED files
           ELSE IF ~writeOk
           THEN /\ out' = <<"Can't write " \o s[2] \o ", error">>
                /\ UNCHANGED files
           ELSE /\ files' = (s[2] :> [exists |-> TRUE, data |-> histFile]) @@ files
                /\ out' = <<".save " \o s[2] \o " completed\n">>
    /\ UNCHANGED <<pc, cmds, prompt, history, histFile, rlClosed, evals>>

\* os.Exit(0): the process ends at once, deferred calls do not run
ExitCmd(line) ==
    /\ ReadLine(line, "exit")
    /\ paths' = Append(paths, "exit")
    /\ pc' = "exited"
    /\ out' = <<>>
    /\ UNCHANGED <<cmds, prompt, history, histFile, files, rlClosed, evals>>

\* a .break that resets the prompt and leaves the buffer
BreakCmd_KeepsBuffer(line) ==
    /\ ReadLine(line, "break")
    /\ paths' = Append(paths, "break")
    /\ out' = <<"Clearing input \"" \o Join(cmds, " ") \o "\"\n">>
    /\ prompt' = BasePrompt
    /\ UNCHANGED <<pc, cmds, history, histFile, files, rlClosed, evals>>

BreakCmd(line) ==
    /\ ReadLine(line, "break")
    /\ paths' = Append(paths, "break")
    /\ out' = <<"Clearing input \"" \o Join(cmds, " ") \o "\"\n">>
    /\ cmds' = <<>>
    /\ prompt' = BasePrompt
    /\ UNCHANGED <<pc, history, histFile, files, rlClosed, evals>>

\* a failed compile that saves the line to history
DefaultCompileError_SavesFragment(buf) ==
    /\ paths' = Append(paths, "compile-error")
    /\ cmds' = buf
    /\ out' = <<"compile error\n">>
    /\ prompt' = ContinuationPrompt(buf)
    /\ history' = Append(history, buf[Len(buf)])
    /\ histFile' = SaveHistoryFile(histFile, buf[Len(buf)])
    /\ UNCHANGED <<pc, evals>>

\* a failed compile that does not keep the line
DefaultCompileError_DropsLine(buf) ==
    /\ paths' = Append(paths, "compile-error")
    /\ cmds' = SubSeq(buf, 1, Len(buf) - 1)
    /\ out' = <<"compile error\n">>
    /\ prompt' = ContinuationPrompt(buf)
    /\ UNCHANGED <<pc, history, histFile, evals>>

\* a failed compile that evaluates the text all the same
DefaultCompileError_Evaluates(buf) ==
    /\ paths' = Append(paths, "compile-error")
    /\ cmds' = buf
    /\ out' = <<"compile error\n">>
    /\ prompt' = ContinuationPrompt(buf)
    /\ evals' = Append(evals, Join(buf, " "))
    /\ UNCHANGED <<pc, history, histFile>>

\* the branch of the default case taken when js.VM.Compile returns an error
DefaultCompileError(buf) ==
    /\ paths' = Append(paths, "compile-error")
    /\ cmds' = buf
    /\ out' = <<"compile error\n">>
    /\ prompt' = ContinuationPrompt(buf)
    /\ UNCHANGED <<pc, history, histFile, evals>>

\* a successful compile whose evaluation error ends the loop
DefaultCompiled_StopsOnEvalError(src) ==
    /\ paths' = Append(paths, "compiled")
    /\ prompt' = BasePrompt
    /\ history' = Append(history, src)
    /\ histFile' = SaveHistoryFile(histFile, src)
    /\ cmds' = <<>>
    /\ evals' = Append(evals, src)
    /\ out' = (IF EvalRaises(src) THEN <<"js error: error\n">> ELSE <<>>)
              \o <<"    " \o bold(EvalString(src)) \o "\n">>
    /\ pc' = IF EvalRaises(src) THEN "returned" ELSE pc

\* a successful compile that leaves the prompt as it was
DefaultCompiled_KeepsPrompt(src) ==
    /\ paths' = Append(paths, "compiled")
    /\ history' = Append(history, src)
    /\ histFile' = SaveHistoryFile(histFile, src)
    /\ cmds' = <<>>
    /\ evals' = Append(evals, src)
    /\ out' = (IF EvalRaises(src) THEN <<"js error: error\n">> ELSE <<>>)
              \o <<"    " \o bold(EvalString(src)) \o "\n">>
    /\ UNCHANGED <<pc, prompt>>

\* the branch of the default case taken when the joined buffer compiles
DefaultCompiled(src) ==
    /\ paths' = Append(paths, "compiled")
    /\ prompt' = BasePrompt
    /\ history' = Append(history, src)
    /\ histFile' = SaveHistoryFile(histFile, src)
    /\ cmds' = <<>>
    /\ evals' = Append(evals, src)
    /\ out' = (IF EvalRaises(src) THEN <<"js error: error\n">> ELSE <<>>)
              \o <<"    " \o bold(EvalString(src)) \o "\n">>
    /\ UNCHANGED pc

DefaultCmd(line) ==
    /\ ReadLine(line, "default")
    /\ LET buf == Append(cmds, line)
           src == Join(buf, " ")
       IN  IF ~Compiles(src)
           THEN DefaultCompileError(buf)
           ELSE DefaultCompiled(src)
    /\ UNCHANGED <<files, rlClosed>>

\* the registrations of the seed registry: three of those AddHelp makes
SeedHelp == <<
    <<"os", "args", <<>>, "Exposes any command line arguments left after flag.Parse() has run.">>,
    <<"os", "exit", <<"exitCode int, log_msg string">>, "Stops the program existing with the numeric value given(e.g. zero if everything is OK), an optional log message can be included.">>,
    <<"http", "get", <<"uri string", "headers []object">>, "performs a synchronous http GET operation">> >>

RECURSIVE SetHelpAll(_, _)
SetHelpAll(r, calls) ==
    IF Len(calls) = 0 THEN r
    ELSE LET c == Head(calls)
         IN  SetHelpAll(SetHelpOp(r.Help, r.Terms, c[1], c[2], c[3], c[4]), Tail(calls))

FileNames == {"f"}
FileData == {"1\n{"}
Lines == {"1", "y", "{", "}", ".break", ".breakx", ".help", ".help os", ".help os.exit",
          ".list", ".load f", ".load", ".reset", ".save f", ".exit"}
ReadErrors == {"EOF", "Interrupt"}

\* the state in which Repl enters its loop: the registry filled, the completer built,
\* the line editor made with the base prompt and an existing history file
InitRepl ==
    /\ LET r == SetHelpAll([Help |-> NewHelp, Terms |-> <<>>], SeedHelp)
       IN  /\ Help = r.Help
           /\ AutoCompleteTerms = r.Terms
           /\ AutoCompleter = AddAutoCompleteChildren(r.Terms)
    /\ regs = SeedHelp
    /\ call = <<"Repl">>
    /\ out = <<>>
    /\ pc = "read"
    /\ cmds = <<>>
    /\ prompt = BasePrompt
    /\ i = 1
    /\ history = <<>>
    /\ histFile = ""
    /\ files \in [FileNames -> {[exists |-> FALSE, data |-> ""]}
                               \cup {[exists |-> TRUE, data |-> d] : d \in FileData}]
    /\ rlClosed = FALSE
    /\ evals = <<>>
    /\ inputs = <<>>
    /\ paths = <<>>
    /\ HostIdle

NextRepl ==
    \/ \E err \in ReadErrors : ReadError(err)
    \/ \E line \in Lines : HelpCmd(line)
    \/ \E line \in Lines, readOk \in BOOLEAN : ListCmd(line, readOk)
    \/ \E line \in Lines : LoadCmd(line)
    \/ \E line \in Lines, truncOk \in BOOLEAN : ResetCmd(line, truncOk)
    \/ \E line \in Lines, readOk \in BOOLEAN, writeOk \in BOOLEAN : SaveCmd(line, readOk, writeOk)
    \/ \E line \in Lines : ExitCmd(line)
    \/ \E line \in Lines : BreakCmd(line)
    \/ \E line \in Lines : DefaultCmd(line)

SpecRepl == InitRepl /\ [][NextRepl]_vars

(***************************************************************************)
(* The command-line program ottomatic (SpecMain).                          *)
(***************************************************************************)
MaxArgs == 2

\* the script files of the command line: one that runs, one that throws, one that does
\* not compile, one that is not there
ScriptNames == {"a", "b", "c", "d"}
ScriptFiles ==
    [n \in ScriptNames |->
        CASE n = "a" -> [exists |-> TRUE, data |-> "1"]
          [] n = "b" -> [exists |-> TRUE, data |-> "y"]
          [] n = "c" -> [exists |-> TRUE, data |-> "{"]
          [] OTHER   -> [exists |-> FALSE, data |-> ""]]

\* flag.Args(): up to MaxArgs file names
ArgLists == UNION {[1..n -> ScriptNames] : n \in 0..MaxArgs}

\* things only main changes or nothing changes while main runs
mainKept == <<fs, books, net, ret, aStruct, failure, wbData, argv,
              history, histFile, files, rlClosed, inputs, paths>>

\* the state after flag.Parse(): -h, -v and -i are in their variables
InitMain ==
    /\ Help = NewHelp
    /\ AutoCompleteTerms = <<>>
    /\ AutoCompleter = <<>>
    /\ out = <<>>
    /\ regs = <<>>
    /\ call = <<"main">>
    /\ pc = "main"
    /\ cmds = <<>> /\ prompt = "" /\ i = 0 /\ history = <<>> /\ histFile = ""
    /\ files = ScriptFiles
    /\ rlClosed = FALSE /\ evals = <<>> /\ inputs = <<>> /\ paths = <<>>
    /\ fs = [p \in {} |-> "none"] /\ books = [n \in {} |-> <<>>] /\ net = [u \in {} |-> "ok"]
    /\ ret = JsUndefined /\ log = <<>> /\ trail = <<>>
    /\ StructIdle
    /\ WorkbookNew
    /\ argv \in [showHelp : BOOLEAN, showVersion : BOOLEAN, runRepl : BOOLEAN, args : ArgLists]
    /\ runRepl = argv.runRepl

\* the switch on the flags: -h prints the usage and the version, -v the version, and
\* both end the process
MainUsage ==
    /\ pc = "main"
    /\ argv.showHelp \/ argv.showVersion
    /\ out' = IF argv.showHelp THEN <<"USAGE: ottomatic [OPTIONS] [JAVASCRIPT_FILENAMES]", "Version 0.0.7">>
              ELSE <<"Version 0.0.7">>
    /\ pc' = "exited"
    /\ call' = <<"os.Exit", "0">>
    /\ UNCHANGED helpVars
    /\ UNCHANGED mainKept
    /\ UNCHANGED <<cmds, prompt, i, evals, log, trail, runRepl>>

\* vm := otto.New(); js := ostdlib.New(vm); js.AddExtensions()
MainAddExtensions ==
    /\ pc = "main"
    /\ ~argv.showHelp /\ ~argv.showVersion
    /\ trail' = Append(trail, <<"AddExtensions", "", "">>)
    /\ call' = <<"AddExtensions">>
    /\ pc' = "help"
    /\ out' = <<>>
    /\ UNCHANGED helpVars
    /\ UNCHANGED mainKept
    /\ UNCHANGED <<cmds, prompt, i, evals, log, runRepl>>

\* js.AddHelp()
MainAddHelp ==
    /\ pc = "help"
    /\ LET r == SetHelpAll([Help |-> Help, Terms |-> AutoCompleteTerms], SeedHelp)
       IN  Help' = r.Help /\ AutoCompleteTerms' = r.Terms
    /\ regs' = regs \o SeedHelp
    /\ trail' = Append(trail, <<"AddHelp", "", "">>)
    /\ call' = <<"AddHelp">>
    /\ pc' = "complete"
    /\ UNCHANGED mainKept
    /\ UNCHANGED <<AutoCompleter, out, cmds, prompt, i, evals, log, runRepl>>

\* js.AddAutoComplete()
MainAddAutoComplete ==
    /\ pc = "complete"
    /\ AutoCompleter' = AddAutoCompleteChildren(AutoCompleteTerms)
    /\ trail' = Append(trail, <<"AddAutoComplete", "", "">>)
    /\ call' = <<"AddAutoComplete">>
    /\ pc' = "args"
    /\ UNCHANGED mainKept
    /\ UNCHANGED <<Help, AutoCompleteTerms, regs, out, cmds, prompt, i, evals, log, runRepl>>

\* a main that leaves runRepl as the flag set it
MainArgs_KeepsFlag ==
    /\ pc = "args"
    /\ pc' = "scripts"
    /\ call' = <<"flag.Args">>
    /\ UNCHANGED helpVars
    /\ UNCHANGED mainKept
    /\ UNCHANGED <<out, cmds, prompt, i, evals, log, trail, runRepl>>

\* args := flag.Args(); if len(args) == 0 { runRepl = true }
MainArgs ==
    /\ pc = "args"
    /\ runRepl' = (runRepl \/ Len(argv.args) = 0)
    /\ pc' = "scripts"
    /\ call' = <<"flag.Args">>
    /\ UNCHANGED helpVars
    /\ UNCHANGED mainKept
    /\ UNCHANGED <<out, cmds, prompt, i, evals, log, trail>>

\* the iterations of the range loop made so far
ScriptsTried == LET IsScript(c) == c[1] = "script" IN Len(SelectSeq(trail, IsScript))

\* one iteration of the loop over the arguments: read, compile, evaluate; check() ends
\* the process with log.Fatalf at the first of the three that fails
MainRunScript ==
    /\ pc = "scripts"
    /\ ScriptsTried < Len(argv.args)
    /\ LET scriptname == argv.args[ScriptsTried + 1]
           src == files[scriptname].data
           Fatal(stage, msg) ==
               /\ trail' = Append(trail, <<"script", scriptname, stage>>)
               /\ log' = <<scriptname \o ", " \o msg>>
               /\ pc' = "fatal"
       IN  /\ call' = <<"script", scriptname>>
           /\ IF ~files[scriptname].exists
              THEN Fatal("read", "open " \o scriptname \o ": no such file or directory")
                   /\ UNCHANGED evals
              ELSE IF ~Compiles(src)
              THEN Fatal("compile", "SyntaxError") /\ UNCHANGED evals
              ELSE /\ evals' = Append(evals, src)
                   /\ IF EvalRaises(src)
                      THEN Fatal("eval", "Error")
                      ELSE /\ trail' = Append(trail, <<"script", scriptname, "ok">>)
                           /\ UNCHANGED <<log, pc>>
    /\ UNCHANGED helpVars
    /\ UNCHANGED mainKept
    /\ UNCHANGED <<out, cmds, prompt, i, runRepl>>

\* if runRepl == true { js.Repl() }: Repl makes its line editor and enters its loop, or
\* panics when the line editor cannot be made
MainRepl(rlOk) ==
    /\ pc = "scripts"
    /\ ScriptsTried = Len(argv.args)
    /\ runRepl
    /\ trail' = Append(trail, <<"Repl", "", "">>)
    /\ call' = <<"Repl">>
    /\ IF rlOk
       THEN pc' = "read" /\ prompt' = BasePrompt /\ i' = 1 /\ cmds' = <<>>
       ELSE pc' = "panicked" /\ UNCHANGED <<prompt, i, cmds>>
    /\ UNCHANGED helpVars
    /\ UNCHANGED mainKept
    /\ UNCHANGED <<out, evals, log, runRepl>>

\* os.Exit(0) at the end of main: without a shell, or after Repl has returned
MainExit ==
    /\ \/ pc = "scripts" /\ ScriptsTried = Len(argv.args) /\ ~runRepl
       \/ pc = "returned"
    /\ pc' = "exited"
    /\ call' = <<"os.Exit", "0">>
    /\ UNCHANGED helpVars
    /\ UNCHANGED mainKept
    /\ UNCHANGED <<out, cmds, prompt, i, evals, log, trail, runRepl>>

NextMain ==
    \/ MainUsage
    \/ MainAddExtensions
    \/ MainAddHelp
    \/ MainAddAutoComplete
    \/ MainArgs
    \/ MainRunScript
    \/ \E rlOk \in BOOLEAN : MainRepl(rlOk)
    \/ MainExit
    \/ NextRepl

SpecMain == InitMain /\ [][NextMain]_vars

(***************************************************************************)
(* The host functions AddExtensions gives the script engine (SpecHost).    *)
(***************************************************************************)
RECURSIVE QuoteFrom(_, _)
QuoteFrom(s, k) ==
    IF k > Len(s) THEN ""
    ELSE (IF Char(s, k) \in {"\"", "\\"} THEN "\\" \o Char(s, k) ELSE Char(s, k))
         \o QuoteFrom(s, k + 1)

\* fmt.Sprintf("%q", s) for a text of printable characters
Quote(s) == "\"" \o QuoteFrom(s, 1) \o "\""

\* call.CallerLocation() of a call made from the script
CallerLocation == "<anonymous>:1:1"

\* what errorObject(nil, msg) returns, and what it writes to the log
ErrorValue(msg) == JsObject(<<Prop("status", JsString("error")), Prop("error", JsString(msg))>>)
ErrorLog(msg) == <<msg>>

\* a call of a host function: the script is running, the call is recorded
HostCallTo(c, next) ==
    /\ pc = "script"
    /\ Len(trail) < MaxCalls
    /\ trail' = Append(trail, c)
    /\ call' = c
    /\ pc' = next
    /\ UNCHANGED <<aStruct, failure, argv, runRepl>>
    /\ UNCHANGED helpVars
    /\ UNCHANGED <<out, cmds, prompt, i, history, histFile, files, rlClosed, evals, inputs, paths>>

\* a call that returns to the script
HostCall(c) == HostCallTo(c, "script") /\ UNCHANGED wbData

\* the call returns errorObject(nil, msg)
\* an error object that is returned without a line in the log
ReturnError_NotLogged(msg) == ret' = ErrorValue(msg) /\ log' = <<>>

ReturnError(msg) == ret' = ErrorValue(msg) /\ log' = ErrorLog(msg)

IsDir(kind) == kind \in {"dir", "fulldir"}

\* os.remove(pathname); sysErr names the system call that fails for a reason of its own
OsRemove(pathname, sysErr) ==
    /\ pathname \in DOMAIN fs
    /\ HostCall(<<"os.remove", pathname, sysErr>>)
    /\ UNCHANGED <<books, net>>
    /\ LET msg(e) == CallerLocation \o " os.remove(" \o Quote(pathname) \o "), " \o e
       IN  IF fs[pathname] = "none"
           THEN ReturnError(msg("open " \o pathname \o ": no such file or directory")) /\ UNCHANGED fs
           ELSE IF sysErr = "stat"
           THEN ReturnError(msg("stat " \o pathname \o ": input/output error")) /\ UNCHANGED fs
           ELSE IF ~IsDir(fs[pathname])
           THEN IF sysErr = "remove"
                THEN ReturnError(msg("remove " \o pathname \o ": permission denied")) /\ UNCHANGED fs
                ELSE /\ fs' = [fs EXCEPT ![pathname] = "none"]
                     /\ ret' = JsBool(TRUE) /\ log' = <<>>
           ELSE ret' = JsBool(FALSE) /\ log' = <<>> /\ UNCHANGED fs

\* an os.rmdir that removes whatever the path names
OsRmdir_NoDirCheck(pathname, sysErr) ==
    /\ pathname \in DOMAIN fs
    /\ HostCall(<<"os.rmdir", pathname, sysErr>>)
    /\ UNCHANGED <<books, net>>
    /\ LET msg(e) == CallerLocation \o " os.rmdir(" \o Quote(pathname) \o "), " \o e
       IN  IF fs[pathname] = "none"
           THEN ReturnError(msg("open " \o pathname \o ": no such file or directory")) /\ UNCHANGED fs
           ELSE IF sysErr = "stat"
           THEN ReturnError(msg("stat " \o pathname \o ": input/output error")) /\ UNCHANGED fs
           ELSE IF sysErr = "remove"
           THEN ReturnError(msg("remove " \o pathname \o ": permission denied")) /\ UNCHANGED fs
           ELSE IF fs[pathname] = "fulldir"
           THEN ReturnError(msg("remove " \o pathname \o ": directory not empty")) /\ UNCHANGED fs
           ELSE /\ fs' = [fs EXCEPT ![pathname] = "none"]
                /\ ret' = JsBool(TRUE) /\ log' = <<>>

\* os.rmdir(pathname)
OsRmdir(pathname, sysErr) ==
    /\ pathname \in DOMAIN fs
    /\ HostCall(<<"os.rmdir", pathname, sysErr>>)
    /\ UNCHANGED <<books, net>>
    /\ LET msg(e) == CallerLocation \o " os.rmdir(" \o Quote(pathname) \o "), " \o e
       IN  IF fs[pathname] = "none"
           THEN ReturnError(msg("open " \o pathname \o ": no such file or directory")) /\ UNCHANGED fs
           ELSE IF sysErr = "stat"
           THEN ReturnError(msg("stat " \o pathname \o ": input/output error")) /\ UNCHANGED fs
           ELSE IF IsDir(fs[pathname])
           THEN IF sysErr = "remove"
                THEN ReturnError(msg("remove " \o pathname \o ": permission denied")) /\ UNCHANGED fs
                ELSE IF fs[pathname] = "fulldir"
                THEN ReturnError(msg("remove " \o pathname \o ": directory not empty")) /\ UNCHANGED fs
                ELSE /\ fs' = [fs EXCEPT ![pathname] = "none"]
                     /\ ret' = JsBool(TRUE) /\ log' = <<>>
           ELSE ret' = JsBool(FALSE) /\ log' = <<>> /\ UNCHANGED fs

\* os.rmdirAll(pathname)
OsRmdirAll(pathname, sysErr) ==
    /\ pathname \in DOMAIN fs
    /\ HostCall(<<"os.rmdirAll", pathname, sysErr>>)
    /\ UNCHANGED <<books, net>>
    /\ LET msg(e) == CallerLocation \o " os.rmdirAll(" \o Quote(pathname) \o "), " \o e
       IN  IF fs[pathname] = "none"
           THEN ReturnError(msg("open " \o pathname \o ": no such file or directory")) /\ UNCHANGED fs
           ELSE IF sysErr = "stat"
           THEN ReturnError(msg("stat " \o pathname \o ": input/output error")) /\ UNCHANGED fs
           ELSE IF IsDir(fs[pathname])
           THEN IF sysErr = "remove"
                THEN ReturnError(msg("unlinkat " \o pathname \o ": permission denied")) /\ UNCHANGED fs
                ELSE /\ fs' = [fs EXCEPT ![pathname] = "none"]
                     /\ ret' = JsBool(TRUE) /\ log' = <<>>
           ELSE ret' = JsBool(FALSE) /\ log' = <<>> /\ UNCHANGED fs

\* url.Parse, as http.NewRequest uses it: a text that starts with a colon has no scheme
ParsesAsUrl(uri) == ~HasPrefix(uri, ":")

\* client.Do returns a response
Connects(uri) == uri \in DOMAIN net /\ net[uri] # "refuses"

\* the body the server sends, and what ioutil.ReadAll returns with its error when the
\* connection breaks while the body is read
ResponseBody == "body"
PartialBody == "bo"
BodyRead(uri) == IF net[uri] = "drops" THEN [content |-> PartialBody, err |-> TRUE]
                 ELSE [content |-> ResponseBody, err |-> FALSE]

\* http.get(uri[, headers]); hdr tells what the headers argument is: "absent", "valid",
\* "unexportable" when Export returns an error for it, "untranslatable" when it does not
\* decode into a list of string maps
HttpGet(uri, hdr) ==
    /\ DOMAIN net # {}
    /\ HostCall(<<"http.get", uri, hdr>>)
    /\ UNCHANGED <<fs, books, net>>
    /\ IF hdr = "unexportable"
       THEN ReturnError("Failed to process headers, " \o CallerLocation \o ", " \o uri
                        \o ", export error")
       ELSE IF hdr = "untranslatable"
       THEN ReturnError("Failed to translate headers, " \o CallerLocation \o ", " \o uri
                        \o ", json: cannot unmarshal")
       ELSE IF ~ParsesAsUrl(uri)
       THEN ReturnError("Can't create a GET request for " \o uri \o ", " \o CallerLocation
                        \o ", missing protocol scheme")
       ELSE IF ~Connects(uri)
       THEN ReturnError("Can't connect to " \o uri \o ", " \o CallerLocation \o ", connection refused")
       ELSE \* the error of ioutil.ReadAll is assigned and then overwritten by that of ToValue
            /\ ret' = JsString(BodyRead(uri).content)
            /\ log' = <<>>

\* an http.post that does not test the error of ioutil.ReadAll
HttpPost_IgnoresReadError(uri, hdr) ==
    /\ DOMAIN net # {}
    /\ HostCall(<<"http.post", uri, hdr>>)
    /\ UNCHANGED <<fs, books, net>>
    /\ IF hdr = "unexportable"
       THEN ReturnError("Failed to process headers for " \o uri \o ", " \o CallerLocation
                        \o ", export error")
       ELSE IF hdr = "untranslatable"
       THEN ReturnError("Failed to translate header for " \o uri \o ", " \o CallerLocation
                        \o ", json: cannot unmarshal")
       ELSE IF ~ParsesAsUrl(uri)
       THEN ReturnError("Can't create a POST request for " \o uri \o ", " \o CallerLocation
                        \o ", missing protocol scheme")
       ELSE IF ~Connects(uri)
       THEN ReturnError("Can't connect to " \o uri \o ", " \o CallerLocation \o ", connection refused")
       ELSE /\ ret' = JsString(BodyRead(uri).content)
            /\ log' = <<>>

\* http.post(uri, mimeType, payload[, headers])
HttpPost(uri, hdr) ==
    /\ DOMAIN net # {}
    /\ HostCall(<<"http.post", uri, hdr>>)
    /\ UNCHANGED <<fs, books, net>>
    /\ IF hdr = "unexportable"
       THEN ReturnError("Failed to process headers for " \o uri \o ", " \o CallerLocation
                        \o ", export error")
       ELSE IF hdr = "untranslatable"
       THEN ReturnError("Failed to translate header for " \o uri \o ", " \o CallerLocation
                        \o ", json: cannot unmarshal")
       ELSE IF ~ParsesAsUrl(uri)
       THEN ReturnError("Can't create a POST request for " \o uri \o ", " \o CallerLocation
                        \o ", missing protocol scheme")
       ELSE IF ~Connects(uri)
       THEN ReturnError("Can't connect to " \o uri \o ", " \o CallerLocation \o ", connection refused")
       ELSE IF BodyRead(uri).err
       THEN ReturnError("Can't read response " \o uri \o ", " \o CallerLocation \o ", unexpected EOF")
       ELSE /\ ret' = JsString(BodyRead(uri).content)
            /\ log' = <<>>

Servers == {"http://h"}
Uris == Servers \cup {":"}
ServerKinds == {"ok", "refuses", "drops"}
HeaderArgs == {"absent", "valid", "unexportable", "untranslatable"}
\* the calls a script makes: header arguments are varied on the requests to a server
HttpCalls == {c \in Uris \X HeaderArgs : c[1] \notin Servers => c[2] = "absent"}

\* a workbook file: whether xlsx.OpenFile can open it, and its sheets in file order;
\* a sheet has a name and rows, a row has cells, and a cell has the text that
\* cell.String() returns together with whether it returns an error with it
NoBook == [exists |-> FALSE, sheets |-> <<>>]
Book(ss) == [exists |-> TRUE, sheets |-> ss]
Sheet(n, rs) == [name |-> n, rows |-> rs]
Cell(s) == [text |-> s, err |-> FALSE]
BadCell(s) == [text |-> s, err |-> TRUE]

\* the markup of the cells of a row, from cell k on
RECURSIVE CellsMarkup(_, _)
CellsMarkup(cells, k) ==
    IF k > Len(cells) THEN <<>>
    ELSE (IF k > 1 THEN <<",">> ELSE <<>>) \o <<Quote(cells[k].text)>> \o CellsMarkup(cells, k + 1)

\* the markup of the rows of a sheet, from row j on
RECURSIVE RowsMarkup(_, _)
RowsMarkup(rows, j) ==
    IF j > Len(rows) THEN <<>>
    ELSE (IF j > 1 THEN <<",">> ELSE <<>>) \o <<"[">> \o CellsMarkup(rows[j], 1) \o <<"]">>
         \o RowsMarkup(rows, j + 1)

\* the markup of the sheets of a workbook, from sheet n on
RECURSIVE SheetsMarkup_Reversed(_, _)
SheetsMarkup_Reversed(sheets, n) ==
    IF n > Len(sheets) THEN <<>>
    ELSE (IF n > 1 THEN <<",">> ELSE <<>>)
         \o <<Quote(sheets[Len(sheets) + 1 - n].name) \o ":[">>
         \o RowsMarkup(sheets[Len(sheets) + 1 - n].rows, 1) \o <<"]">>
         \o SheetsMarkup_Reversed(sheets, n + 1)

RECURSIVE SheetsMarkup(_, _)
SheetsMarkup(sheets, n) ==
    IF n > Len(sheets) THEN <<>>
    ELSE (IF n > 1 THEN <<",">> ELSE <<>>) \o <<Quote(sheets[n].name) \o ":[">>
         \o RowsMarkup(sheets[n].rows, 1) \o <<"]">>
         \o SheetsMarkup(sheets, n + 1)

Markup(sheets) == <<"{">> \o SheetsMarkup(sheets, 1) \o <<"}">>

\* the script text xlsx.read evaluates
ReadSource(sheets) == "(function (){ return " \o Join(Markup(sheets), "") \o ";}());"

\* the script engine reading a string literal: the text from position k (after the
\* opening quote) to the closing quote, with its escapes undone
RECURSIVE ScanString(_, _, _)
ScanString(s, k, acc) ==
    IF k > Len(s) THEN [ok |-> FALSE, v |-> acc, n |-> k]
    ELSE IF Char(s, k) = "\"" THEN [ok |-> TRUE, v |-> acc, n |-> k + 1]
    ELSE IF Char(s, k) = "\\" /\ k < Len(s) THEN ScanString(s, k + 2, acc \o Char(s, k + 1))
    ELSE ScanString(s, k + 1, acc \o Char(s, k))

\* the tokens of an object literal: punctuation and string literals
RECURSIVE Tokens(_, _)
Tokens(s, k) ==
    IF k > Len(s) THEN <<>>
    ELSE IF Char(s, k) = "\""
    THEN LET r == ScanString(s, k + 1, "")
         IN  <<[t |-> (IF r.ok THEN "str" ELSE "bad"), s |-> r.v]>> \o Tokens(s, r.n)
    ELSE <<[t |-> "p", s |-> Char(s, k)]>> \o Tokens(s, k + 1)

EndToken == [t |-> "end", s |-> ""]
Tok(toks, k) == IF k <= Len(toks) THEN toks[k] ELSE EndToken
IsPunct(toks, k, c) == Tok(toks, k) = [t |-> "p", s |-> c]
ParseFail == [ok |-> FALSE, v |-> JsUndefined, n |-> 0]

\* the elements of an array literal of strings, token k being its next element
RECURSIVE ParseCells(_, _, _)
ParseCells(toks, k, acc) ==
    IF Tok(toks, k).t # "str" THEN ParseFail
    ELSE LET elems == Append(acc, JsString(Tok(toks, k).s))
         IN  IF IsPunct(toks, k + 1, ",") THEN ParseCells(toks, k + 2, elems)
             ELSE IF IsPunct(toks, k + 1, "]") THEN [ok |-> TRUE, v |-> JsArray(elems), n |-> k + 2]
             ELSE ParseFail

\* an array literal of strings that starts at token k
ParseRow(toks, k) ==
    IF ~IsPunct(toks, k, "[") THEN ParseFail
    ELSE IF IsPunct(toks, k + 1, "]") THEN [ok |-> TRUE, v |-> JsArray(<<>>), n |-> k + 2]
    ELSE ParseCells(toks, k + 1, <<>>)

\* the elements of an array literal of rows, token k being its next element
RECURSIVE ParseRows(_, _, _)
ParseRows(toks, k, acc) ==
    LET r == ParseRow(toks, k)
    IN  IF ~r.ok THEN ParseFail
        ELSE IF IsPunct(toks, r.n, ",") THEN ParseRows(toks, r.n + 1, Append(acc, r.v))
        ELSE IF IsPunct(toks, r.n, "]")
        THEN [ok |-> TRUE, v |-> JsArray(Append(acc, r.v)), n |-> r.n + 1]
        ELSE ParseFail

\* an array literal of rows that starts at token k
ParseTable(toks, k) ==
    IF ~IsPunct(toks, k, "[") THEN ParseFail
    ELSE IF IsPunct(toks, k + 1, "]") THEN [ok |-> TRUE, v |-> JsArray(<<>>), n |-> k + 2]
    ELSE ParseRows(toks, k + 1, <<>>)

\* a property put into an object: a key the object has keeps its place
SetProp(props, p) ==
    IF \E n \in 1..Len(props) : props[n].k = p.k
    THEN [n \in 1..Len(props) |-> IF props[n].k = p.k THEN p ELSE props[n]]
    ELSE Append(props, p)

\* the properties of an object literal, token k being its next key
RECURSIVE ParseProps(_, _, _)
ParseProps(toks, k, acc) ==
    IF Tok(toks, k).t # "str" \/ ~IsPunct(toks, k + 1, ":") THEN ParseFail
    ELSE LET r == ParseTable(toks, k + 2)
             props == SetProp(acc, Prop(Tok(toks, k).s, r.v))
         IN  IF ~r.ok THEN ParseFail
             ELSE IF IsPunct(toks, r.n, ",") THEN ParseProps(toks, r.n + 1, props)
             ELSE IF IsPunct(toks, r.n, "}")
             THEN [ok |-> TRUE, v |-> JsObject(props), n |-> r.n + 1]
             ELSE ParseFail

\* an object literal of tables: the whole token list
ParseObject(toks) ==
    LET r == IF ~IsPunct(toks, 1, "{") THEN ParseFail
             ELSE IF IsPunct(toks, 2, "}") THEN [ok |-> TRUE, v |-> JsObject(<<>>), n |-> 3]
             ELSE ParseProps(toks, 2, <<>>)
    IN  IF r.ok /\ r.n = Len(toks) + 1 THEN r ELSE ParseFail

ReadPrefix == "(function (){ return "
ReadSuffix == ";}());"
HasSuffix(s, t) == Len(s) >= Len(t) /\ SubSeq(s, Len(s) - Len(t) + 1, Len(s)) = t

\* js.VM.Eval of a function that returns an object literal and is called at once
EvalReturn(src) ==
    IF HasPrefix(src, ReadPrefix) /\ HasSuffix(src, ReadSuffix)
       /\ Len(src) >= Len(ReadPrefix) + Len(ReadSuffix)
    THEN ParseObject(Tokens(SubSeq(src, Len(ReadPrefix) + 1, Len(src) - Len(ReadSuffix)), 1))
    ELSE ParseFail

\* xlsx.read(filename): args are the arguments of the call
\* what xlsx.read returns for its arguments, and what it writes to the log
XlsxReadResult(args) ==
    LET Failed(msg) == [v |-> ErrorValue(msg), log |-> ErrorLog(msg)]
    IN  IF Len(args) # 1
        THEN Failed("xlxs.read(filename), error missing filename, " \o CallerLocation)
        ELSE IF ~books[args[1]].exists
        THEN Failed("xlsx.read(" \o Quote(args[1]) \o "), error " \o CallerLocation
                    \o ", open " \o args[1] \o ": no such file or directory")
        ELSE LET result == EvalReturn(ReadSource(books[args[1]].sheets))
             IN  IF ~result.ok
                 THEN Failed("xlsx.read(" \o Quote(args[1]) \o ") error, " \o CallerLocation
                             \o ", SyntaxError")
                 ELSE [v |-> result.v, log |-> <<>>]

XlsxRead(args) ==
    /\ DOMAIN books # {}
    /\ HostCall(<<"xlsx.read", args, "">>)
    /\ UNCHANGED <<fs, books, net>>
    /\ LET r == XlsxReadResult(args)
       IN  ret' = r.v /\ log' = r.log

\* ToBoolean of a JavaScript value
Truthy(val) ==
    CASE val.t = "undefined" -> FALSE
      [] val.t = "boolean" -> val.s = "true"
      [] val.t = "string" -> val.s # ""
      [] val.t = "number" -> val.s \notin {"0", "NaN"}
      [] OTHER -> TRUE

\* the body of Workbook.read(name), given what xlsx.read(name) returned and this.__data
WorkbookReadOp(data, old) ==
    IF Truthy(data)
    THEN [v |-> JsBool(TRUE), data |-> data]
    ELSE [v |-> JsBool(FALSE), data |-> old]

\* Workbook.read(name) of the script: the wrapper that calls xlsx.read(name)
WorkbookRead(name) ==
    /\ DOMAIN books # {}
    /\ HostCallTo(<<"Workbook.read", <<name>>, "">>, "script")
    /\ UNCHANGED <<fs, books, net>>
    /\ LET r == XlsxReadResult(<<name>>)
           w == WorkbookReadOp(r.v, wbData)
       IN  ret' = w.v /\ wbData' = w.data /\ log' = r.log

\* Export of an object is a Go map: range visits its entries in any order
MapOrders(v) == IF v.t = "object" THEN Orders({v.a[n] : n \in 1..Len(v.a)}) ELSE {<<>>}

\* the exported value is a [][]string: an array with at least one element whose
\* elements are arrays of strings with at least one element
IsStringGrid(v) ==
    /\ v.t = "array" /\ Len(v.a) > 0
    /\ \A j \in 1..Len(v.a) :
          /\ v.a[j].t = "array" /\ Len(v.a[j].a) > 0
          /\ \A k \in 1..Len(v.a[j].a) : v.a[j].a[k].t = "string"

\* the rows and cells added to a sheet for a table
GridRows(v) == [j \in 1..Len(v.a) |-> [k \in 1..Len(v.a[j].a) |-> Cell(v.a[j].a[k].s)]]

\* a loop that ends at the first sheet it cannot add
RECURSIVE WriteSheets_StopsAtBadSheet(_, _, _, _, _)
WriteSheets_StopsAtBadSheet(fname, entries, n, bad, w) ==
    IF n > Len(entries) THEN w
    ELSE IF entries[n].k = bad
    THEN [w EXCEPT !.log = Append(@, fname \o ", can't add sheet " \o entries[n].k
                                     \o ", sheet rejected")]
    ELSE IF ~IsStringGrid(entries[n].v) THEN [w EXCEPT !.panicked = TRUE]
    ELSE WriteSheets_StopsAtBadSheet(fname, entries, n + 1, bad,
                     [w EXCEPT !.sheets = Append(@, Sheet(entries[n].k, GridRows(entries[n].v)))])

\* the loop over the map entries, from entry n of the order on: w holds the sheets of
\* the new file, the lines logged, and whether a type assertion has panicked
RECURSIVE WriteSheets(_, _, _, _, _)
WriteSheets(fname, entries, n, bad, w) ==
    IF n > Len(entries) THEN w
    ELSE IF entries[n].k = bad
    THEN WriteSheets(fname, entries, n + 1, bad,
                     [w EXCEPT !.log = Append(@, fname \o ", can't add sheet " \o entries[n].k
                                                 \o ", sheet rejected")])
    ELSE IF ~IsStringGrid(entries[n].v) THEN [w EXCEPT !.panicked = TRUE]
    ELSE WriteSheets(fname, entries, n + 1, bad,
                     [w EXCEPT !.sheets = Append(@, Sheet(entries[n].k, GridRows(entries[n].v)))])

HasKey(v, key) == v.t = "object" /\ \E n \in 1..Len(v.a) : v.a[n].k = key

\* the faults that can show in a call of xlsx.write with these arguments
WriteFaults(args, bad, fault) ==
    /\ Len(args) # 2 => bad = "" /\ fault = "none"
    /\ Len(args) = 2 =>
          /\ bad # "" => fault # "export" /\ HasKey(args[2], bad)
          /\ fault = "save" => args[2].t = "object"

\* xlsx.write(filename, sheetObject): bad is the sheet name file.AddSheet rejects,
\* fault is "export" when Export returns an error and "save" when file.Save does
XlsxWrite(args, bad, fault) ==
    /\ DOMAIN books # {}
    /\ WriteFaults(args, bad, fault)
    /\ UNCHANGED <<fs, net>>
    /\ IF Len(args) # 2
       THEN /\ HostCall(<<"xlsx.write", args, <<bad, fault>> >>)
            /\ ReturnError("xlsx.write(filename, sheetsObject), missing parameters, "
                           \o CallerLocation)
            /\ books' = books
       ELSE IF fault = "export"
       THEN /\ HostCall(<<"xlsx.write", args, <<bad, fault>> >>)
            /\ ReturnError("xlsx.write(" \o Quote(args[1]) \o ", sheetsObject), error "
                           \o CallerLocation \o ", export error")
            /\ books' = books
       ELSE \E entries \in MapOrders(args[2]) :
            LET w == WriteSheets(args[1], entries, 1, bad,
                                 [sheets |-> <<>>, log |-> <<>>, panicked |-> FALSE])
                msg == "xlsx.write(" \o Quote(args[1]) \o ", sheetsObject), error "
                       \o CallerLocation \o ", save failed"
            IN  IF args[2].t # "object" \/ w.panicked
                THEN \* a failed type assertion panics: the call does not return
                     /\ HostCallTo(<<"xlsx.write", args, <<bad, fault>> >>, "panicked")
                     /\ wbData' = wbData
                     /\ ret' = JsUndefined
                     /\ log' = w.log
                     /\ books' = books
                ELSE IF fault = "save"
                THEN /\ HostCall(<<"xlsx.write", args, <<bad, fault>> >>)
                     /\ ret' = ErrorValue(msg)
                     /\ log' = Append(w.log, msg)
                     /\ books' = books
                ELSE /\ HostCall(<<"xlsx.write", args, <<bad, fault>> >>)
                     /\ ret' = JsBool(TRUE)
                     /\ log' = w.log
                     /\ books' = [books EXCEPT ![args[1]] = Book(w.sheets)]

BookNames == {"in", "out"}
TwoSheets == Book(<<Sheet("Sheet1", << <<Cell("a"), Cell("b")>> >>),
                    Sheet("Sheet2", << <<Cell("c")>> >>)>>)
OneSheet == Book(<<Sheet("Sheet1", << <<Cell("q\""), BadCell("1e")>>, <<Cell("a")>> >>)>>)
EmptySheet == Book(<<Sheet("Sheet1", <<>>), Sheet("Sheet2", << <<Cell("a")>> >>)>>)
Books == {TwoSheets, OneSheet, EmptySheet, NoBook}
ReadArgs == {<<>>, <<"in">>, <<"out">>}
BadSheets == {"", "Sheet2"}
SaveFaults == {"none", "export", "save"}

PathNames == {"p"}
PathKinds == {"none", "file", "dir", "fulldir"}
SysErrs == {"no", "stat", "remove"}

\* the state after AddExtensions, before the script calls a host function
ScriptStart ==
    /\ Help = NewHelp
    /\ AutoCompleteTerms = <<>>
    /\ AutoCompleter = <<>>
    /\ out = <<>>
    /\ regs = <<>>
    /\ call = <<"AddExtensions">>
    /\ pc = "script"
    /\ ReplIdle
    /\ ret = JsUndefined
    /\ log = <<>>
    /\ trail = <<>>
    /\ StructIdle
    /\ WorkbookNew
    /\ MainIdle

\* a script that works on the paths of the file system
InitOs ==
    /\ ScriptStart
    /\ fs \in [PathNames -> PathKinds]
    /\ books = [n \in {} |-> <<>>]
    /\ net = [u \in {} |-> "ok"]

\* a script that calls the servers of the network
InitHttp ==
    /\ ScriptStart
    /\ fs = [p \in {} |-> "none"]
    /\ books = [n \in {} |-> <<>>]
    /\ net \in [Servers -> ServerKinds]

\* a script that reads the workbook "in" and writes the workbook "out"
InitXlsx ==
    /\ ScriptStart
    /\ fs = [p \in {} |-> "none"]
    /\ net = [u \in {} |-> "ok"]
    /\ \E b \in Books : books = [n \in BookNames |-> IF n = "in" THEN b ELSE NoBook]

\* a behaviour follows one script: it uses the file system, the network or the workbooks
InitHost == InitOs \/ InitHttp \/ InitXlsx

NextHost ==
    \/ \E p \in PathNames, e \in SysErrs : OsRemove(p, e)
    \/ \E p \in PathNames, e \in SysErrs : OsRmdir(p, e)
    \/ \E p \in PathNames, e \in SysErrs : OsRmdirAll(p, e)
    \/ \E c \in HttpCalls : HttpGet(c[1], c[2])
    \/ \E c \in HttpCalls : HttpPost(c[1], c[2])
    \/ \E a \in ReadArgs : XlsxRead(a)
    \/ \E n \in BookNames : WorkbookRead(n)
    \/ \E a \in {<<"out">>, <<"out", ret>>}, b \in BadSheets, f \in SaveFaults : XlsxWrite(a, b, f)

SpecHost == InitHost /\ [][NextHost]_vars

(***************************************************************************)
(* ToStruct: Export of the script value, json.Marshal of what it gives,    *)
(* json.Unmarshal of the text into the struct.  A number is held as its    *)
(* count of tenths, and written in decimal with at most one decimal.       *)
(***************************************************************************)
CharAt(s, k) == IF k >= 1 /\ k <= Len(s) THEN Char(s, k) ELSE ""
IsDigit(c) == \E d \in 1..10 : Digits[d] = c
DigitVal(c) == (CHOOSE d \in 1..10 : Digits[d] = c) - 1

\* the decimal text of a number: strconv for an integer or a float of one decimal
FormatNum(tenths) ==
    LET abs == IF tenths < 0 THEN -tenths ELSE tenths
    IN  (IF tenths < 0 THEN "-" ELSE "")
        \o Itoa(abs \div 10)
        \o (IF abs % 10 = 0 THEN "" ELSE "." \o Itoa(abs % 10))

\* the digits of s from position k on: their value and the position after them
RECURSIVE ScanDigits(_, _, _)
ScanDigits(s, k, acc) ==
    IF IsDigit(CharAt(s, k)) THEN ScanDigits(s, k + 1, acc * 10 + DigitVal(CharAt(s, k)))
    ELSE [v |-> acc, n |-> k]

\* a number literal at position k: its tenths, whether it is written as an integer,
\* and the position after it
ScanNumber(s, k) ==
    LET neg == CharAt(s, k) = "-"
        k1 == IF neg THEN k + 1 ELSE k
        d == ScanDigits(s, k1, 0)
        sign == IF neg THEN -1 ELSE 1
    IN  IF ~IsDigit(CharAt(s, k1)) THEN [ok |-> FALSE, v |-> 0, whole |-> FALSE, n |-> k]
        ELSE IF CharAt(s, d.n) # "."
        THEN [ok |-> TRUE, v |-> sign * d.v * 10, whole |-> TRUE, n |-> d.n]
        ELSE IF IsDigit(CharAt(s, d.n + 1)) /\ ~IsDigit(CharAt(s, d.n + 2))
        THEN [ok |-> TRUE, v |-> sign * (d.v * 10 + DigitVal(CharAt(s, d.n + 1))),
              whole |-> FALSE, n |-> d.n + 2]
        ELSE [ok |-> FALSE, v |-> 0, whole |-> FALSE, n |-> k]

\* the Go values Export gives
GoNil == [g |-> "nil"]
GoBool(b) == [g |-> "bool", b |-> b]
GoNum(tenths) == [g |-> "num", n |-> tenths]
GoNaN == [g |-> "nan"]
GoString(x) == [g |-> "string", s |-> x]
GoSlice(elems) == [g |-> "slice", l |-> elems]
GoMap(entries) == [g |-> "map", m |-> entries]

\* Value.Export: a number is an int64 or a float64, an array a slice, an object a map
\* from its keys (the order of the properties is not kept)
RECURSIVE Export(_)
Export(v) ==
    IF v.t = "boolean" THEN GoBool(v.s = "true")
    ELSE IF v.t = "number"
    THEN (IF v.s = "NaN" THEN GoNaN ELSE GoNum(ScanNumber(v.s, 1).v))
    ELSE IF v.t = "string" THEN GoString(v.s)
    ELSE IF v.t = "array" THEN GoSlice([n \in 1..Len(v.a) |-> Export(v.a[n])])
    ELSE IF v.t = "object"
    THEN GoMap([key \in {v.a[n].k : n \in 1..Len(v.a)} |->
                   Export((CHOOSE p \in {v.a[n] : n \in 1..Len(v.a)} : p.k = key).v)])
    ELSE GoNil

\* the text of a string in JSON, as encoding/json writes it
\* a JSON text that holds the characters of the string as they are
RECURSIVE JsonQuoteFrom_NoEscape(_, _)
JsonQuoteFrom_NoEscape(s, k) ==
    IF k > Len(s) THEN "" ELSE Char(s, k) \o JsonQuoteFrom_NoEscape(s, k + 1)

RECURSIVE JsonQuoteFrom(_, _)
JsonQuoteFrom(s, k) ==
    IF k > Len(s) THEN ""
    ELSE (CASE Char(s, k) = "\"" -> "\\\""
            [] Char(s, k) = "\\" -> "\\\\"
            [] Char(s, k) = "<" -> "\\u003c"
            [] Char(s, k) = ">" -> "\\u003e"
            [] Char(s, k) = "&" -> "\\u0026"
            [] OTHER -> Char(s, k))
         \o JsonQuoteFrom(s, k + 1)

JsonQuote(s) == "\"" \o JsonQuoteFrom(s, 1) \o "\""

\* the keys a script object may have, in the sorted order json.Marshal writes a map in
SortedKeys == <<"five", "four", "one", "three", "two">>

MarshalFail == [ok |-> FALSE, s |-> ""]

\* json.Marshal: the JSON text of a Go value, or an error for a value JSON cannot hold
RECURSIVE Marshal(_)
RECURSIVE MarshalElems(_, _)
RECURSIVE MarshalEntries(_, _, _)
Marshal(g) ==
    CASE g.g = "nil" -> [ok |-> TRUE, s |-> "null"]
      [] g.g = "bool" -> [ok |-> TRUE, s |-> IF g.b THEN "true" ELSE "false"]
      [] g.g = "num" -> [ok |-> TRUE, s |-> FormatNum(g.n)]
      [] g.g = "nan" -> MarshalFail
      [] g.g = "string" -> [ok |-> TRUE, s |-> JsonQuote(g.s)]
      [] g.g = "slice" ->
            LET r == MarshalElems(g.l, 1)
            IN  IF r.ok THEN [ok |-> TRUE, s |-> "[" \o r.s \o "]"] ELSE MarshalFail
      [] g.g = "map" ->
            LET r == MarshalEntries(g.m, 1, TRUE)
            IN  IF r.ok THEN [ok |-> TRUE, s |-> "{" \o r.s \o "}"] ELSE MarshalFail

\* the elements of a slice from element n on, with commas between them
MarshalElems(l, n) ==
    IF n > Len(l) THEN [ok |-> TRUE, s |-> ""]
    ELSE LET e == Marshal(l[n])
             rest == MarshalElems(l, n + 1)
         IN  IF e.ok /\ rest.ok
             THEN [ok |-> TRUE, s |-> (IF n > 1 THEN "," ELSE "") \o e.s \o rest.s]
             ELSE MarshalFail

\* the entries of a map from sorted key n on; first tells that none has been written
MarshalEntries(m, n, first) ==
    IF n > Len(SortedKeys) THEN [ok |-> TRUE, s |-> ""]
    ELSE IF SortedKeys[n] \notin DOMAIN m THEN MarshalEntries(m, n + 1, first)
    ELSE LET e == Marshal(m[SortedKeys[n]])
             rest == MarshalEntries(m, n + 1, FALSE)
         IN  IF e.ok /\ rest.ok
             THEN [ok |-> TRUE,
                   s |-> (IF first THEN "" ELSE ",") \o JsonQuote(SortedKeys[n]) \o ":"
                         \o e.s \o rest.s]
             ELSE MarshalFail

\* a JSON document as the decoder reads it: t the kind, s the text of a number or
\* the contents of a string, a the elements or the members in the order of the text
JsonNull == [t |-> "null", s |-> "", a |-> <<>>]
JsonFail == [ok |-> FALSE, v |-> JsonNull, n |-> 0]
HasAt(s, k, word) == k + Len(word) - 1 <= Len(s) /\ SubSeq(s, k, k + Len(word) - 1) = word

\* the contents of a JSON string from position k (after the opening quote) on
RECURSIVE ScanJsonString(_, _, _)
ScanJsonString(s, k, acc) ==
    IF k > Len(s) THEN JsonFail
    ELSE IF Char(s, k) = "\""
    THEN [ok |-> TRUE, v |-> [t |-> "string", s |-> acc, a |-> <<>>], n |-> k + 1]
    ELSE IF Char(s, k) # "\\" THEN ScanJsonString(s, k + 1, acc \o Char(s, k))
    ELSE IF HasAt(s, k, "\\u003c") THEN ScanJsonString(s, k + 6, acc \o "<")
    ELSE IF HasAt(s, k, "\\u003e") THEN ScanJsonString(s, k + 6, acc \o ">")
    ELSE IF HasAt(s, k, "\\u0026") THEN ScanJsonString(s, k + 6, acc \o "&")
    ELSE IF CharAt(s, k + 1) \in {"\"", "\\", "/"}
    THEN ScanJsonString(s, k + 2, acc \o Char(s, k + 1))
    ELSE JsonFail

\* the JSON value at position k of the text and the position after it
RECURSIVE JsonValue(_, _)
RECURSIVE JsonElems(_, _, _)
RECURSIVE JsonMembers(_, _, _)
JsonValue(s, k) ==
    CASE CharAt(s, k) = "{" ->
            IF CharAt(s, k + 1) = "}"
            THEN [ok |-> TRUE, v |-> [t |-> "object", s |-> "", a |-> <<>>], n |-> k + 2]
            ELSE JsonMembers(s, k + 1, <<>>)
      [] CharAt(s, k) = "[" ->
            IF CharAt(s, k + 1) = "]"
            THEN [ok |-> TRUE, v |-> [t |-> "array", s |-> "", a |-> <<>>], n |-> k + 2]
            ELSE JsonElems(s, k + 1, <<>>)
      [] CharAt(s, k) = "\"" -> ScanJsonString(s, k + 1, "")
      [] HasAt(s, k, "true") ->
            [ok |-> TRUE, v |-> [t |-> "boolean", s |-> "true", a |-> <<>>], n |-> k + 4]
      [] HasAt(s, k, "false") ->
            [ok |-> TRUE, v |-> [t |-> "boolean", s |-> "false", a |-> <<>>], n |-> k + 5]
      [] HasAt(s, k, "null") -> [ok |-> TRUE, v |-> JsonNull, n |-> k + 4]
      [] OTHER ->
            LET r == ScanNumber(s, k)
            IN  IF r.ok
                THEN [ok |-> TRUE, v |-> [t |-> "number", s |-> SubSeq(s, k, r.n - 1), a |-> <<>>],
                      n |-> r.n]
                ELSE JsonFail

\* the elements of an array, position k being the start of the next one
JsonElems(s, k, acc) ==
    LET e == JsonValue(s, k)
    IN  IF ~e.ok THEN JsonFail
        ELSE IF CharAt(s, e.n) = "," THEN JsonElems(s, e.n + 1, Append(acc, e.v))
        ELSE IF CharAt(s, e.n) = "]"
        THEN [ok |-> TRUE, v |-> [t |-> "array", s |-> "", a |-> Append(acc, e.v)], n |-> e.n + 1]
        ELSE JsonFail

\* the members of an object, position k being the start of the next key
JsonMembers(s, k, acc) ==
    LET key == IF CharAt(s, k) = "\"" THEN ScanJsonString(s, k + 1, "") ELSE JsonFail
        e == IF key.ok /\ CharAt(s, key.n) = ":" THEN JsonValue(s, key.n + 1) ELSE JsonFail
    IN  IF ~e.ok THEN JsonFail
        ELSE IF CharAt(s, e.n) = "," THEN JsonMembers(s, e.n + 1, Append(acc, Prop(key.v.s, e.v)))
        ELSE IF CharAt(s, e.n) = "}"
        THEN [ok |-> TRUE,
              v |-> [t |-> "object", s |-> "", a |-> Append(acc, Prop(key.v.s, e.v))],
              n |-> e.n + 1]
        ELSE JsonFail

\* the name encoding/json gives the kind of a JSON value in its errors
KindName(j) == IF j.t = "boolean" THEN "bool" ELSE j.t

TypeError(j, field, type) ==
    "json: cannot unmarshal " \o KindName(j) \o " into Go struct field ." \o field
    \o " of type " \o type

\* a JSON number fits an int when it is written without a fraction
IsInt(j) == j.t = "number" /\ ScanNumber(j.s, 1).whole
IntOf(j) == ScanNumber(j.s, 1).v \div 10

\* the first message is kept
Note(msg, new) == IF msg = "" THEN new ELSE msg

\* the decoding of a member into the field of its key: st holds the struct and the
\* first error; a value of the wrong kind leaves its field and decoding goes on
DecodeField(st, p) ==
    IF p.v.t = "null"
    THEN (IF p.k = "four" THEN [st EXCEPT !.v.four = <<>>] ELSE st)
    ELSE CASE p.k = "one" ->
                IF IsInt(p.v) THEN [st EXCEPT !.v.one = IntOf(p.v)]
                ELSE [st EXCEPT !.msg = Note(@, TypeError(p.v, "one", "int"))]
           [] p.k = "two" ->
                IF p.v.t = "string" THEN [st EXCEPT !.v.two = p.v.s]
                ELSE [st EXCEPT !.msg = Note(@, TypeError(p.v, "two", "string"))]
           [] p.k = "three" ->
                IF p.v.t = "number" THEN [st EXCEPT !.v.three = ScanNumber(p.v.s, 1).v]
                ELSE [st EXCEPT !.msg = Note(@, TypeError(p.v, "three", "float32"))]
           [] p.k = "four" ->
                IF p.v.t = "array"
                THEN [v |-> [st.v EXCEPT !.four =
                                [n \in 1..Len(p.v.a) |->
                                    IF IsInt(p.v.a[n]) THEN IntOf(p.v.a[n]) ELSE 0]],
                      msg |-> IF \A n \in 1..Len(p.v.a) : IsInt(p.v.a[n]) \/ p.v.a[n].t = "null"
                              THEN st.msg
                              ELSE Note(st.msg,
                                        TypeError(p.v.a[CHOOSE n \in 1..Len(p.v.a) :
                                                      /\ ~IsInt(p.v.a[n]) /\ p.v.a[n].t # "null"
                                                      /\ \A m \in 1..(n - 1) :
                                                            IsInt(p.v.a[m]) \/ p.v.a[m].t = "null"],
                                                  "four", "int"))]
                ELSE [st EXCEPT !.msg = Note(@, TypeError(p.v, "four", "[]int"))]
           [] p.k = "five" ->
                IF p.v.t = "boolean" THEN [st EXCEPT !.v.five = (p.v.s = "true")]
                ELSE [st EXCEPT !.msg = Note(@, TypeError(p.v, "five", "bool"))]
           [] OTHER -> st

RECURSIVE DecodeMembers(_, _, _)
DecodeMembers(members, n, st) ==
    IF n > Len(members) THEN st
    ELSE DecodeMembers(members, n + 1, DecodeField(st, members[n]))

\* json.Unmarshal(src, &aStruct): the struct after the call and the error, "" for nil
Unmarshal(src, target) ==
    LET doc == JsonValue(src, 1)
    IN  IF ~doc.ok \/ doc.n # Len(src) + 1
        THEN [v |-> target, msg |-> "invalid character"]
        ELSE IF doc.v.t = "null" THEN [v |-> target, msg |-> ""]
        ELSE IF doc.v.t # "object"
        THEN [v |-> target,
              msg |-> "json: cannot unmarshal " \o KindName(doc.v) \o " into Go value of type struct"]
        ELSE DecodeMembers(doc.v.a, 1, [v |-> target, msg |-> ""])

ExportPrefix == "failed to export value, "
MarshalPrefix == "failed to marshal value, "
UnmarshalPrefix == "failed to unmarshal value, "

\* the three stages of ToStruct applied to value and target; exportErr tells that
\* Export returns an error
ToStructOp_OnePrefix(value, target, exportErr) ==
    LET src == Marshal(Export(value))
        u == Unmarshal(src.s, target)
    IN  IF exportErr THEN [v |-> target, msg |-> ExportPrefix \o "export error"]
        ELSE IF ~src.ok THEN [v |-> target, msg |-> UnmarshalPrefix \o "json: unsupported value: NaN"]
        ELSE IF u.msg # "" THEN [v |-> u.v, msg |-> UnmarshalPrefix \o u.msg]
        ELSE [v |-> u.v, msg |-> ""]

ToStructOp(value, target, exportErr) ==
    LET src == Marshal(Export(value))
        u == Unmarshal(src.s, target)
    IN  IF exportErr THEN [v |-> target, msg |-> ExportPrefix \o "export error"]
        ELSE IF ~src.ok THEN [v |-> target, msg |-> MarshalPrefix \o "json: unsupported value: NaN"]
        ELSE IF u.msg # "" THEN [v |-> u.v, msg |-> UnmarshalPrefix \o u.msg]
        ELSE [v |-> u.v, msg |-> ""]

\* the script value of a record of the struct's type
ValueOf(r) ==
    JsObject(<<Prop("one", JsNumber(FormatNum(r.one * 10))),
               Prop("two", JsString(r.two)),
               Prop("three", JsNumber(FormatNum(r.three))),
               Prop("four", JsArray([n \in 1..Len(r.four) |-> JsNumber(FormatNum(r.four[n] * 10))])),
               Prop("five", JsBool(r.five))>>)

\* the records the scripts return
Records == {r \in [one : {7, -12}, two : {"", "T\"<"}, three : {35, 30},
                   four : {<<>>, <<1, 2>>}, five : BOOLEAN] : r.five <=> r.three = 35}

\* script values that are not the value of a record
OtherValues ==
    {JsString("s"),
     JsObject(<<Prop("one", JsString("x")), Prop("two", JsString("w"))>>),
     JsObject(<<Prop("one", JsNumber("3.5")), Prop("five", JsBool(TRUE))>>),
     JsObject(<<Prop("three", JsNumber("NaN")), Prop("two", JsString("w"))>>),
     JsObject(<<Prop("two", JsString("w")), Prop("four", JsArray(<<JsNumber("1"), JsString("x")>>))>>)}

ScriptValues == {ValueOf(r) : r \in Records} \cup OtherValues

\* a Go program holds a struct and the value of a script
InitStruct ==
    /\ Help = NewHelp
    /\ AutoCompleteTerms = <<>>
    /\ AutoCompleter = <<>>
    /\ out = <<>>
    /\ regs = <<>>
    /\ call = <<"New">>
    /\ pc = "go"
    /\ ReplIdle
    /\ HostIdle

\* val, err := vm.Run(jsSrc)
Run(v) ==
    /\ pc = "go"
    /\ ret' = v
    /\ call' = <<"Run">>
    /\ UNCHANGED helpVars
    /\ UNCHANGED <<out, pc, cmds, prompt, i, history, histFile, files, rlClosed, evals, inputs, paths>>
    /\ UNCHANGED <<fs, books, net, log, trail, aStruct, failure, wbData, argv, runRepl>>

\* err = ToStruct(val, &aStruct)
ToStruct(exportErr) ==
    /\ pc = "go"
    /\ LET r == ToStructOp(ret, aStruct, exportErr)
       IN  aStruct' = r.v /\ failure' = r.msg
    /\ call' = <<"ToStruct", exportErr>>
    /\ UNCHANGED helpVars
    /\ UNCHANGED <<out, pc, cmds, prompt, i, history, histFile, files, rlClosed, evals, inputs, paths>>
    /\ UNCHANGED <<fs, books, net, ret, log, trail, wbData, argv, runRepl>>

NextStruct ==
    \/ \E v \in ScriptValues : Run(v)
    \/ \E e \in BOOLEAN : ToStruct(e)

SpecStruct == InitStruct /\ [][NextStruct]_vars

(***************************************************************************)
(* Properties of the shell loop (SpecRepl).                                *)
(***************************************************************************)
Last(q) == q[Len(q)]

\* a step of the loop that consumed a line
LineStep == Len(inputs') = Len(inputs) + 1

\* the line such a step consumed, and the text it joins from the buffer and the line
LineRead == inputs'[Len(inputs')]
Joined == Join(Append(cmds, LineRead), " ")

RECURSIVE LastBufferEvent(_)
\* the last of the cases that assign the buffer, "start" when there was none
LastBufferEvent(ps) ==
    IF Len(ps) = 0 THEN "start"
    ELSE IF Last(ps) \in {"compile-error", "compiled", "break"} THEN Last(ps)
    ELSE LastBufferEvent(SubSeq(ps, 1, Len(ps) - 1))

\* C1: the pending buffer is non-empty only when the last default-path line failed to
\* compile and neither a successful compile nor an exact .break came after it; it is
\* empty at the start, after every successful compile and after every .break.
C1_BufferOnlyAfterFailedCompile ==
    /\ cmds # <<>> => LastBufferEvent(paths) = "compile-error"
    /\ (paths # <<>> /\ Last(paths) \in {"compiled", "break"}) => cmds = <<>>
    /\ paths = <<>> => cmds = <<>>

C1_Witness ==
    /\ cmds # <<>>
    /\ \E k \in 1..Len(paths) : paths[k] = "break"
    /\ Last(paths) \in {"help", "list", "load", "reset", "save"}

\* C2: when the joined buffer compiles, the prompt becomes the base prompt, the joined
\* text is saved to history, the buffer is emptied and the unit is evaluated exactly
\* once; an evaluation error is printed, the loop goes on and reads the next line with
\* an empty buffer.
C2_CompiledStep ==
    [][(LineStep /\ Dispatch(LineRead) = "default" /\ Compiles(Joined)) =>
          /\ prompt' = BasePrompt
          /\ history' = Append(history, Joined)
          /\ cmds' = <<>>
          /\ evals' = Append(evals, Joined)
          /\ pc' = "read"
          /\ ~rlClosed'
          /\ EvalRaises(Joined) => \E k \in 1..Len(out') : HasPrefix(out'[k], "js error: ")]_vars

C2_Witness ==
    /\ paths # <<>> /\ Last(paths) = "compiled"
    /\ Len(inputs) > 1
    /\ EvalRaises(Last(evals))
    /\ pc = "read" /\ cmds = <<>>

\* C3: the default path adds one history entry per successful compile, whose text is
\* the buffered lines joined by one space, and none when the buffer fails to compile.
C3_OneEntryPerCompile ==
    [][(LineStep /\ Dispatch(LineRead) = "default") =>
          IF Compiles(Joined)
          THEN /\ history' = Append(history, Joined)
               /\ histFile' = histFile \o Joined \o "\n"
          ELSE /\ history' = history
               /\ histFile' = histFile]_vars

C3_Witness ==
    /\ Len(paths) = 3
    /\ paths[1] = "compile-error" /\ paths[2] = "compile-error" /\ paths[3] = "compiled"
    /\ history = <<Join(inputs, " ")>>

MetaPrefixes == {".help", ".list", ".load", ".reset", ".save", ".exit"}
IsMetaLine(line) == \E m \in MetaPrefixes : HasPrefix(line, m)

\* C4 as stated: while the buffer is non-empty a line beginning with .help, .list,
\* .load, .reset, .save or .exit is appended to the buffer and compiled.
C4_MetaOnlyInIdle ==
    [][(LineStep /\ cmds # <<>> /\ IsMetaLine(LineRead)) =>
          \/ cmds' = Append(cmds, LineRead)
          \/ evals' = Append(evals, Joined)]_vars

\* C4 amended: a line beginning with .help, .list, .load, .reset, .save or .exit is
\* taken as that dot command whether or not the buffer is empty; it is neither
\* appended to the buffer nor compiled, and the buffer and the prompt stay as they were.
C4_MetaInEveryState ==
    [][(LineStep /\ IsMetaLine(LineRead)) =>
          /\ Last(paths') \in {"help", "list", "load", "reset", "save", "exit"}
          /\ HasPrefix(LineRead, "." \o Last(paths'))
          /\ cmds' = cmds
          /\ prompt' = prompt
          /\ evals' = evals]_vars

C4_Witness ==
    /\ cmds # <<>>
    /\ Last(paths) = "help"
    /\ prompt = "01: "

\* C5: on every path by which the shell ends (end of input, interrupt, .exit) the line
\* editor has been closed.
C5_ClosedOnEveryExit == pc \in {"returned", "exited"} => rlClosed

\* C6: a line that is exactly .break empties the buffer and sets the base prompt and
\* compiles, evaluates and saves nothing; with an empty buffer it changes neither; a
\* longer line that starts with .break is not the break command: it goes to the buffer.
C6_BreakExact ==
    [][LineStep =>
          /\ LineRead = ".break" =>
                /\ cmds' = <<>> /\ prompt' = BasePrompt
                /\ evals' = evals /\ history' = history /\ histFile' = histFile
                /\ (cmds = <<>> /\ prompt = BasePrompt) => (cmds' = cmds /\ prompt' = prompt)
          /\ (HasPrefix(LineRead, ".break") /\ LineRead # ".break") =>
                /\ Last(paths') # "break"
                /\ cmds' = Append(cmds, LineRead) \/ evals' = Append(evals, Joined)]_vars

C6_Witness ==
    /\ Len(paths) = 3
    /\ paths[1] = "compile-error" /\ inputs[2] = ".breakx" /\ Len(cmds) = 0
    /\ paths[3] = "break" /\ prompt = BasePrompt

\* C7: an incomplete fragment, then its completion, then .break: one evaluation in all,
\* of the two lines joined, and after the third line an empty buffer and the base prompt.
C7_FragmentCompletionBreak ==
    (/\ Len(inputs) = 3
     /\ Dispatch(inputs[1]) = "default" /\ ~Compiles(inputs[1])
     /\ Dispatch(inputs[2]) = "default" /\ Compiles(inputs[1] \o " " \o inputs[2])
     /\ inputs[3] = ".break")
    => /\ evals = <<inputs[1] \o " " \o inputs[2]>>
       /\ cmds = <<>>
       /\ prompt = BasePrompt

C7_Witness ==
    /\ inputs = <<"{", "}", ".break">>
    /\ evals = <<"{ }">>

\* C22: a line of the default case is appended to the buffer and the buffer, joined,
\* is compiled; when that fails the buffer is the old one with the line added, the
\* prompt shows its length, and nothing is evaluated or saved.
C22_FailedCompileKeepsBuffer ==
    [][(LineStep /\ Dispatch(LineRead) = "default" /\ ~Compiles(Joined)) =>
          /\ cmds' = Append(cmds, LineRead)
          /\ Len(cmds') = Len(cmds) + 1
          /\ prompt' = Fmt02d(Len(cmds')) \o ": "
          /\ evals' = evals
          /\ history' = history
          /\ pc' = "read"]_vars

\* two lines in a row failed to compile: the buffer holds both
C22_Witness ==
    /\ Len(paths) = 2
    /\ paths[1] = "compile-error" /\ paths[2] = "compile-error"
    /\ cmds = inputs
    /\ prompt = "02: "
    /\ evals = <<>>

\* the prompt is the base prompt when the buffer is empty and the count of its lines
\* otherwise
PromptShowsBuffer ==
    /\ prompt = BasePrompt <=> cmds = <<>>
    /\ cmds # <<>> => prompt = Fmt02d(Len(cmds)) \o ": "

\* C23: in every state of the loop the prompt is "> " exactly when the buffer is empty
\* and shows the number of buffered lines otherwise; .help, .list, .load, .reset and
\* .save change neither the buffer nor the prompt.
C23_PromptTracksBuffer ==
    [][/\ PromptShowsBuffer
       /\ PromptShowsBuffer'
       /\ (LineStep /\ Last(paths') \in {"help", "list", "load", "reset", "save"}) =>
             cmds' = cmds /\ prompt' = prompt]_vars

\* the buffer was filled, emptied by a compile, and filled again
C23_Witness ==
    /\ Len(paths) = 3
    /\ paths = <<"compile-error", "compiled", "compile-error">>
    /\ Len(cmds) = 1
    /\ prompt = "01: "

\* C24: .help os looks up (os, ""), .help os.exit looks up (os, exit), .help alone
\* prints the directory; no .help line changes the buffer or the prompt.
C24_HelpTopicSplit ==
    [][LineStep =>
          /\ LineRead = ".help os" => out' \in GetHelpOut(Help, "os", "")
          /\ LineRead = ".help os.exit" => out' \in GetHelpOut(Help, "os", "exit")
          /\ LineRead = ".help" => out' \in GetHelpOut(Help, "", "")
          /\ HasPrefix(LineRead, ".help") =>
                cmds' = cmds /\ prompt' = prompt /\ evals' = evals]_vars

\* .help os.exit was read while the buffer held a line, after .help os
C24_Witness ==
    /\ Len(inputs) = 3
    /\ inputs[2] = ".help os" /\ inputs[3] = ".help os.exit"
    /\ cmds # <<>>
    /\ out \in GetHelpOut(Help, "os", "exit")
    /\ out \notin GetHelpOut(Help, "os", "")

\* the file a .load line names
LoadName(line) == SplitN2(line, " ")[2]

\* C25: .load of a readable file passes each line of the file to the history store and
\* leaves the buffer, the prompt and the evaluations as they were; when the file cannot
\* be read, the history stays as it was and the loop reads on.
C25_LoadOnlyFillsHistory ==
    [][(LineStep /\ Last(paths') = "load" /\ Len(SplitN2(LineRead, " ")) = 2
        /\ LoadName(LineRead) # "") =>
          /\ cmds' = cmds /\ prompt' = prompt /\ evals' = evals /\ pc' = "read"
          /\ IF FileExists(LoadName(LineRead))
             THEN /\ history' = history \o Split(files[LoadName(LineRead)].data, "\n")
                  /\ histFile' = SaveAll(histFile, Split(files[LoadName(LineRead)].data, "\n"))
             ELSE history' = history /\ histFile' = histFile]_vars

\* a file of two lines was loaded while the buffer held a line
C25_Witness ==
    /\ Len(inputs) = 2
    /\ inputs[2] = ".load f"
    /\ cmds = <<"{">>
    /\ history = <<"1", "{">>
    /\ evals = <<>>

\* the file could not be read
C25_WitnessUnreadable ==
    /\ inputs # <<>>
    /\ Last(inputs) = ".load f"
    /\ ~FileExists("f")
    /\ history = <<>>
    /\ pc = "read"

\* C26: a .reset that succeeds leaves the history file empty; while it is empty .list
\* prints nothing; only a compile that succeeds or a .load adds to it; a .save that
\* succeeds writes to the named file what the history file holds.
C26_ResetEmptiesHistory ==
    [][LineStep =>
          /\ (Last(paths') = "reset" /\ out' = <<"history truncated\n">>) => histFile' = ""
          /\ (Last(paths') = "list" /\ histFile = "") =>
                out' \in {<<"">>, <<"History is readable, error\n">>}
          /\ (Last(paths') = "save" /\ out' = <<".save f completed\n">>) =>
                files'["f"] = [exists |-> TRUE, data |-> histFile]
          /\ (histFile = "" /\ Last(paths') \notin {"compiled", "load"}) => histFile' = ""]_vars

\* a text was saved to history, .reset emptied it and .save wrote an empty file
C26_Witness ==
    /\ paths = <<"compiled", "reset", "save">>
    /\ history # <<>>
    /\ histFile = ""
    /\ files["f"] = [exists |-> TRUE, data |-> ""]
(***************************************************************************)
(* Properties of the help registry (SpecHelp).                             *)
(***************************************************************************)
RECURSIVE TotalEntries(_)
\* the number of messages in a Help map
TotalEntries(H) ==
    IF DOMAIN H = {} THEN 0
    ELSE LET k == CHOOSE x \in DOMAIN H : TRUE
         IN  Len(H[k]) + TotalEntries([x \in DOMAIN H \ {k} |-> H[x]])

\* the signature of a registration: object.function(params), object.function() without params
Signature(r) ==
    IF r[3] = <<>> THEN r[1] \o "." \o r[2] \o "()"
    ELSE r[1] \o "." \o r[2] \o "(" \o Join(r[3], ", ") \o ")"

RECURSIVE SignaturesOf(_, _)
\* the signatures of the registrations made under an object, in the order they were made
SignaturesOf(rs, o) ==
    IF Len(rs) = 0 THEN <<>>
    ELSE (IF Head(rs)[1] = o THEN <<Signature(Head(rs))>> ELSE <<>>) \o SignaturesOf(Tail(rs), o)

\* C8: SetHelp with an empty object name leaves the help map and the term sequence as
\* they were; with a non-empty name it appends one message and one term.
C8_SetHelpEmptyObject ==
    [][call'[1] = "SetHelp" =>
          IF call'[2] = ""
          THEN Help' = Help /\ AutoCompleteTerms' = AutoCompleteTerms
          ELSE /\ TotalEntries(Help') = TotalEntries(Help) + 1
               /\ Len(AutoCompleteTerms') = Len(AutoCompleteTerms) + 1
               /\ SubSeq(AutoCompleteTerms', 1, Len(AutoCompleteTerms)) = AutoCompleteTerms
               /\ call'[2] \in DOMAIN Help'
               /\ Last(Help'[call'[2]]) = HelpMsg(call'[2], call'[3], call'[4], call'[5])]_vars

C8_Witness ==
    /\ call[1] = "SetHelp" /\ call[2] = ""
    /\ Len(AutoCompleteTerms) = 2
    /\ TotalEntries(Help) = 2

\* C9: the term sequence is as long as the number of messages over all objects, its
\* i-th term is the signature of the i-th accepted registration, and a registration
\* made twice gives two messages and two terms.
C9_TermsFollowRegistrations ==
    /\ Len(AutoCompleteTerms) = TotalEntries(Help)
    /\ Len(AutoCompleteTerms) = Len(regs)
    /\ \A k \in 1..Len(regs) : AutoCompleteTerms[k] = Signature(regs[k])

C9_Witness ==
    /\ Len(regs) = 3
    /\ regs[1] = regs[3]
    /\ regs[2][1] # regs[1][1]
    /\ AutoCompleteTerms[1] = AutoCompleteTerms[3]

\* C10: GetHelp(o, "") for a registered object o prints o and then the signature of
\* every message registered under o, once per registration and in registration order.
C10_ObjectListing ==
    (call[1] = "GetHelp" /\ call[2] # "" /\ call[3] = "" /\ call[2] \in DOMAIN Help)
    => out = <<Join(<<call[2]>> \o SignaturesOf(regs, call[2]), "\n  ") \o "\n">>

C10_Witness ==
    /\ call = <<"GetHelp", "os", "">>
    /\ Len(regs) = 3
    /\ out = <<"os\n  os.a()\n  os.b()\n">>

\* the seven dot commands of the shell
MetaCommands == <<".help", ".break", ".exit", ".list", ".load", ".reset", ".save">>

\* the object names registered so far
RegisteredObjects == {regs[k][1] : k \in 1..Len(regs)}

\* the one-to-one listings of a set
Listings(S) == {q \in [1..Cardinality(S) -> S] : \A x \in S : \E k \in 1..Cardinality(S) : q[k] = x}

RECURSIVE Indented(_)
\* each name on a line of its own, after three spaces
Indented(q) == IF Len(q) = 0 THEN "" ELSE "\n   " \o Head(q) \o Indented(Tail(q))

\* C11: GetHelp with an empty object name does not look at its function name: whatever
\* it is, the output is the directory, which names every registered object once and
\* then the seven dot commands, and with no registration names the dot commands only.
C11_DirectoryIgnoresFunction ==
    /\ \A f \in QueryNames : GetHelpOut(Help, "", f) = GetHelpOut(Help, "", "")
    /\ (call[1] = "GetHelp" /\ call[2] = "") =>
          /\ Len(out) = 9
          /\ \E q \in Listings(RegisteredObjects) :
                out[1] = "help provides information about objects and functions" \o Indented(q) \o "\n"
          /\ \A k \in 1..7 : HasPrefix(out[k + 2], " " \o bold(MetaCommands[k]))
          /\ regs = <<>> => out[1] = "help provides information about objects and functions\n"

C11_Witness ==
    /\ call = <<"GetHelp", "", "a">>
    /\ Cardinality(DOMAIN Help) = 2
    /\ Len(regs) = 3

RECURSIVE DocsOf(_, _, _)
\* the descriptive texts of the registrations made under an object for a function name
DocsOf(rs, o, f) ==
    IF Len(rs) = 0 THEN <<>>
    ELSE (IF Head(rs)[1] = o /\ Head(rs)[2] = f
          THEN <<Signature(Head(rs)) \o "\n    " \o Head(rs)[4]>>
          ELSE <<>>) \o DocsOf(Tail(rs), o, f)

\* C12: GetHelp(o, f) with both names given prints o and then the descriptive text of
\* exactly the messages under o whose function name is f, nothing more when none
\* matches or o is not registered, and it leaves the registry as it was.
C12_FunctionLookup ==
    [][(call'[1] = "GetHelp" /\ call'[2] # "" /\ call'[3] # "") =>
          /\ out' = <<Join(<<call'[2]>> \o DocsOf(regs, call'[2], call'[3]), "\n  ") \o "\n">>
          /\ (DocsOf(regs, call'[2], call'[3]) = <<>>) => out' = <<call'[2] \o "\n">>
          /\ Help' = Help /\ AutoCompleteTerms' = AutoCompleteTerms
          /\ AutoCompleter' = AutoCompleter]_vars

C12_Witness ==
    /\ call = <<"GetHelp", "os", "a">>
    /\ Len(regs) = 3
    /\ \E k \in 1..3 : regs[k][1] = "os" /\ regs[k][2] = "b"
    /\ out = <<"os\n  os.a()\n    doc\n  os.a(p string, q int)\n    doc\n">>

\* C13: AddAutoComplete gives the completer the seven dot commands followed by every
\* term registered so far; a later SetHelp does not change the completer, and a second
\* AddAutoComplete builds the list anew instead of adding to the one before.
C13_CompleterRebuilt ==
    [][/\ call'[1] = "AddAutoComplete" =>
             /\ AutoCompleter' = MetaCommands \o AutoCompleteTerms
             /\ Len(AutoCompleter') = 7 + Len(regs)
       /\ call'[1] = "SetHelp" => AutoCompleter' = AutoCompleter]_vars

C13_Witness ==
    /\ call[1] = "SetHelp" /\ call[2] # ""
    /\ Len(regs) = 3
    /\ Len(AutoCompleter) = 7 + 2

(***************************************************************************)
(* Properties of the host functions (SpecHost).                            *)
(***************************************************************************)
\* a step in which the script called a host function
HostStep == Len(trail') = Len(trail) + 1

IsErrorObject(v) ==
    /\ v.t = "object"
    /\ Len(v.a) = 2
    /\ v.a[1] = Prop("status", JsString("error"))
    /\ v.a[2].k = "error" /\ v.a[2].v.t = "string"

\* the request of the last http call failed: not made, not connected, or body not read
HttpFailed ==
    \/ ~ParsesAsUrl(call[2])
    \/ call[2] \notin DOMAIN net
    \/ net[call[2]] \in {"refuses", "drops"}

\* C16: http.get and http.post return an error object when the request cannot be made,
\* when the connection fails and when reading the body fails; a body that was not
\* read to its end is never returned as the result.
C16_HttpFailuresReturned ==
    (call[1] \in {"http.get", "http.post"} /\ HttpFailed) => IsErrorObject(ret)

\* the keys of an object, in order
Keys(v) == [n \in 1..Len(v.a) |-> v.a[n].k]

\* the script read "in", wrote what it got to "out" with no fault, and read "out"
ReadWriteRead ==
    /\ Len(trail) = 3
    /\ trail[1][1] = "xlsx.read" /\ trail[1][2] = <<"in">>
    /\ trail[2][1] = "xlsx.write" /\ Len(trail[2][2]) = 2 /\ trail[2][3] = <<"", "none">>
    /\ trail[3][1] = "xlsx.read" /\ trail[3][2] = <<"out">>

\* C17: a workbook with the sheets Sheet1 and Sheet2, read by xlsx.read, written by
\* xlsx.write and read again, has the sheet names Sheet1, Sheet2 in this order.
C17_SheetOrderRoundTrip ==
    (ReadWriteRead /\ books["in"] = TwoSheets)
        => ret.t = "object" /\ Keys(ret) = <<"Sheet1", "Sheet2">>

\* the tabular value of a workbook: sheet names in file order, a row array per row,
\* a string per cell
TabularValue(sheets) ==
    JsObject([n \in 1..Len(sheets) |->
        Prop(sheets[n].name,
             JsArray([j \in 1..Len(sheets[n].rows) |->
                 JsArray([k \in 1..Len(sheets[n].rows[j]) |->
                     JsString(sheets[n].rows[j][k].text)])]))])

\* C18: xlsx.read of a workbook that opens returns the object whose keys are the sheet
\* names in file order, each with one array per row in row order, each with one string
\* per cell in column order.
C18_ReadIsTabularValue ==
    [][(/\ HostStep
        /\ call'[1] = "xlsx.read"
        /\ Len(call'[2]) = 1
        /\ books[call'[2][1]].exists)
       => /\ ret' = TabularValue(books[call'[2][1]].sheets)
          /\ log' = <<>>]_vars

\* a workbook with a quote in a cell, two rows and one sheet has been read
C18_Witness ==
    /\ Len(trail) = 1
    /\ call[1] = "xlsx.read" /\ call[2] = <<"in">>
    /\ books["in"] = OneSheet
    /\ ret.t = "object" /\ Keys(ret) = <<"Sheet1">>
    /\ Len(ret.a[1].v.a) = 2
    /\ ret.a[1].v.a[1].a[1] = JsString("q\"")

\* the workbook with two sheets has been read
C18_WitnessTwoSheets ==
    /\ call[1] = "xlsx.read" /\ call[2] = <<"in">>
    /\ books["in"] = TwoSheets
    /\ Keys(ret) = <<"Sheet1", "Sheet2">>

\* the message of an error object
ErrorText(v) == v.a[2].v.s

\* the value the last host function returned: for Workbook.read, what xlsx.read gave
\* to the wrapper
HostReturned == IF call[1] = "Workbook.read" THEN XlsxReadResult(call[2]).v ELSE ret

\* C15 as stated: a host call writes to the log exactly when it returns an error
\* object, and then the log has the one line that is the object's message.
C15_BothChannels ==
    Len(trail) > 0 =>
        /\ log # <<>> <=> IsErrorObject(HostReturned)
        /\ IsErrorObject(HostReturned) => log = <<ErrorText(HostReturned)>>

\* a line xlsx.write logs for a sheet it could not add
IsAddSheetLine(line) ==
    /\ call[1] = "xlsx.write"
    /\ Len(call[2]) = 2
    /\ HasPrefix(line, call[2][1] \o ", can't add sheet ")

\* the lines a call logged besides the message it returned
OnlyLogged == IF IsErrorObject(HostReturned) THEN SubSeq(log, 1, Len(log) - 1) ELSE log

\* C15: every error object a host call returns has its message as the last line the
\* call wrote to the log, written once; the only lines a call logs without returning
\* them are those of xlsx.write for the sheets it could not add.
C15_ReturnedErrorsAreLogged ==
    Len(trail) > 0 =>
        /\ IsErrorObject(HostReturned) => log # <<>> /\ Last(log) = ErrorText(HostReturned)
        /\ \A n \in 1..Len(OnlyLogged) :
              /\ IsAddSheetLine(OnlyLogged[n])
              /\ IsErrorObject(HostReturned) => OnlyLogged[n] # ErrorText(HostReturned)

\* xlsx.write logged a sheet it could not add and then returned the error of the save
C15_Witness ==
    /\ call[1] = "xlsx.write"
    /\ IsErrorObject(ret)
    /\ Len(log) = 2
    /\ IsAddSheetLine(log[1])
    /\ Last(log) = ErrorText(ret)

\* xlsx.write logged a sheet it could not add and returned true
C15_LoggedOnly ==
    /\ call[1] = "xlsx.write"
    /\ ret = JsBool(TRUE)
    /\ Len(log) = 1

(***************************************************************************)
(* Properties of ToStruct (SpecStruct).                                    *)
(***************************************************************************)
\* C19: ToStruct applied to the script value of a record with an integer, a string, a
\* float, a boolean and an array of integers returns no error and leaves in the struct
\* the values of the record.
C19_RoundTrip ==
    \A r \in Records :
        (call[1] = "ToStruct" /\ ~call[2] /\ ret = ValueOf(r))
            => failure = "" /\ aStruct = r

\* the struct held another record before, and the text has a quote and the array elements
C19_Witness ==
    /\ call[1] = "ToStruct" /\ ~call[2]
    /\ failure = ""
    /\ aStruct = [one |-> -12, two |-> "T\"<", three |-> 35, four |-> <<1, 2>>, five |-> TRUE]
    /\ ret = ValueOf(aStruct)

\* the stage of ToStruct that fails for the value, "" when none does
FailingStage(value, target, exportErr) ==
    IF exportErr THEN "export"
    ELSE IF ~Marshal(Export(value)).ok THEN "marshal"
    ELSE IF Unmarshal(Marshal(Export(value)).s, target).msg # "" THEN "unmarshal"
    ELSE ""

StagePrefix(stage) ==
    CASE stage = "export" -> ExportPrefix
      [] stage = "marshal" -> MarshalPrefix
      [] stage = "unmarshal" -> UnmarshalPrefix

Stages == {"export", "marshal", "unmarshal"}

\* C20: ToStruct returns an error exactly when a stage fails; the message starts with
\* the prefix of the first stage that failed, no prefix being the start of another; the
\* struct is untouched when export or marshal failed.
C20_StageErrors ==
    [][call'[1] = "ToStruct" =>
        LET stage == FailingStage(ret, aStruct, call'[2])
        IN  /\ failure' = "" <=> stage = ""
            /\ stage # "" =>
                  /\ HasPrefix(failure', StagePrefix(stage))
                  /\ \A other \in Stages \ {stage} : ~HasPrefix(failure', StagePrefix(other))
            /\ stage \in {"export", "marshal"} => aStruct' = aStruct]_vars

\* each stage has failed once: the last call failed in marshal on a struct that an
\* earlier call had filled
C20_Witness ==
    /\ call = <<"ToStruct", FALSE>>
    /\ HasPrefix(failure, MarshalPrefix)
    /\ aStruct.one = 7

C20_WitnessUnmarshal ==
    /\ call = <<"ToStruct", FALSE>>
    /\ HasPrefix(failure, UnmarshalPrefix)

C20_WitnessExport ==
    /\ call = <<"ToStruct", TRUE>>
    /\ HasPrefix(failure, ExportPrefix)

\* a cell of the workbook whose text cannot be obtained
HasBadCell(b) ==
    \E n \in 1..Len(b.sheets) : \E j \in 1..Len(b.sheets[n].rows) :
        \E k \in 1..Len(b.sheets[n].rows[j]) : b.sheets[n].rows[j][k].err

\* C27: when cell.String() fails for a cell of the workbook, xlsx.read returns an
\* error object.
C27_BadCellIsReadError ==
    (/\ call[1] = "xlsx.read"
     /\ Len(call[2]) = 1
     /\ books[call[2][1]].exists
     /\ HasBadCell(books[call[2][1]]))
    => IsErrorObject(ret)

\* the names of the sheets of a workbook file
SheetNames(b) == {b.sheets[n].name : n \in 1..Len(b.sheets)}

\* the table the object has under a key
TableOf(v, key) == (CHOOSE p \in {v.a[n] : n \in 1..Len(v.a)} : p.k = key).v

IsSheetMapping(v) ==
    /\ v.t = "object"
    /\ \A n \in 1..Len(v.a) : IsStringGrid(v.a[n].v)

\* C29: xlsx.write of a second argument that is not a mapping from sheet names to rows
\* of cell strings returns an error object to the script.
C29_BadValueIsWriteError ==
    (/\ call[1] = "xlsx.write"
     /\ Len(call[2]) = 2
     /\ ~IsSheetMapping(call[2][2]))
    => pc = "script" /\ IsErrorObject(ret)
\* C30: Workbook.read(name) returns true and replaces the data the wrapper holds only
\* when xlsx.read(name) succeeded; when xlsx.read returned an error object it returns
\* false and the data the wrapper held is unchanged.
C30_WrapperReadFollowsXlsxRead ==
    [][(trail' # trail /\ call'[1] = "Workbook.read")
         => LET r == XlsxReadResult(call'[2])
            IN  IF r.log # <<>>
                THEN ret' = JsBool(FALSE) /\ wbData' = wbData
                ELSE ret' = JsBool(TRUE) /\ wbData' = r.v]_vars
(***************************************************************************)
(* Properties of the command-line program (SpecMain).                      *)
(***************************************************************************)
\* what main has done so far, entry by entry: the call and, for a script, its file
MainSteps == [n \in 1..Len(trail) |-> <<trail[n][1], trail[n][2]>>]

\* the installation calls, in the order of the claim
SetupSteps == << <<"AddExtensions", "">>, <<"AddHelp", "">>, <<"AddAutoComplete", "">> >>

\* one run per file argument, in argument order
ScriptSteps == [n \in 1..Len(argv.args) |-> <<"script", argv.args[n]>>]

ReplCalled == \E n \in 1..Len(trail) : trail[n][1] = "Repl"
ScriptFailed == \E n \in 1..Len(trail) : trail[n][1] = "script" /\ trail[n][3] # "ok"
Flagged == argv.showHelp \/ argv.showVersion

\* main has ended or has handed over to the shell
MainOver == pc \in {"read", "returned", "exited", "fatal", "panicked"}

\* C21, as stated, for a command line without -h and -v: ottomatic installs extensions, then help, then autocompletion, then
\* runs every script file of the command line in argument order with no shell involved,
\* and only afterwards enters the shell; it enters the shell if and only if no files
\* were given or the interactive flag was set.
C21_ShellIffNoFilesOrInteractive ==
    (MainOver /\ ~Flagged) =>
        /\ MainSteps = SetupSteps \o ScriptSteps \o (IF ReplCalled THEN << <<"Repl", "">> >> ELSE <<>>)
        /\ ReplCalled <=> (argv.args = <<>> \/ argv.runRepl)

\* C21, amended: unless -h or -v was given, ottomatic installs extensions, then help,
\* then autocompletion, then runs the script files in argument order with no shell
\* involved; the first script that cannot be read, compiled or evaluated ends the
\* process with a logged message, with no later script run and no shell; when every
\* script has run, the shell is entered if and only if no files were given or the
\* interactive flag was set.  With -h or -v nothing is installed or run.
C21_StartupOrder ==
    /\ HasPrefix(SetupSteps \o ScriptSteps \o << <<"Repl", "">> >>, MainSteps)
    /\ ~ReplCalled => inputs = <<>>
    /\ Flagged => trail = <<>>
    /\ ScriptFailed => /\ pc = "fatal"
                       /\ trail[Len(trail)][1] = "script" /\ trail[Len(trail)][3] # "ok"
                       /\ log # <<>>
    /\ (MainOver /\ ~Flagged /\ ~ScriptFailed) =>
           /\ Len(trail) >= Len(SetupSteps) + Len(argv.args)
           /\ Len(evals) >= Len(argv.args)
           /\ \A n \in 1..Len(argv.args) : evals[n] = files[argv.args[n]].data
           /\ ReplCalled <=> (argv.args = <<>> \/ argv.runRepl)

\* two scripts were run and the shell was entered after them, because of -i
C21_Witness ==
    /\ pc = "read"
    /\ Len(argv.args) = 2 /\ argv.runRepl
    /\ evals = <<"1", "1">>
    /\ MainSteps = SetupSteps \o ScriptSteps \o << <<"Repl", "">> >>

====
